---------------------------- MODULE Spec2Model ----------------------------
(***************************************************************************)
(* Model of the markdown note-block helpers of AnkiTextLayer: the ankiops  *)
(* edition (src/ankiops/markdown_helpers.py) and the deckops edition       *)
(* (src/deckops/markdown_helpers.py).                                      *)
(*                                                                         *)
(* Python values are modelled as follows:                                  *)
(*   str            a TLA+ string (Len, SubSeq and \o act on its chars)    *)
(*   int            an integer                                             *)
(*   None / x       the sequences << >> and << x >>                        *)
(*   list           a sequence                                             *)
(*   dict           a sequence of << key, value >> pairs with distinct     *)
(*                  keys, in insertion order                               *)
(*   raise E(msg)   a record [exc |-> "E", msg |-> msg]                    *)
(***************************************************************************)
EXTENDS Integers, Sequences, FiniteSets, TLC

VARIABLES
    edition,    \* "ankiops" or "deckops": which markdown_helpers module runs
    op,         \* the function being called, "idle" before any call
    arg,        \* the arguments of the call, with the parts they were made of
    frame,      \* local variables of a parse_note_block call in progress;
                \* the remote collection once it is connected
    ret         \* the value returned (or the exception raised) by the call

vars == <<edition, op, arg, frame, ret>>

None == << >>
Some(x) == << x >>

-----------------------------------------------------------------------------
(* str methods                                                             *)

\* s[i-1:i] in Python terms: the i-th character, "" past the end
Char(s, i) == IF 1 <= i /\ i <= Len(s) THEN SubSeq(s, i, i) ELSE ""

\* a character str.strip() trims and \s matches: tab, LF, VT, FF, CR, FS, GS,
\* RS, US, space, NEL (U+0085), NBSP (U+00A0), U+1680.  The whitespace from
\* U+2000 on cannot be written in a string of this module; the strings of
\* the model do not hold it.
IsSpace(c) ==
    c \in {"\t", "\n", "", "\f", "\r", "", "", "", "", " ", "", " ", " "}

\* the decimal digits (\d, and what int() reads): each row holds the digits
\* 0 to 9 of one script.  The rows are those that can be written in a string
\* of this module; the strings of the model hold no digit of another script.
DecimalDigits ==
    << "0123456789",
       "۰۱۲۳۴۵۶۷۸۹",
       "߀߁߂߃߄߅߆߇߈߉",
       "০১২৩৪৫৬৭৮৯",
       "૦૧૨૩૪૫૬૭૮૯",
       "௦௧௨௩௪௫௬௭௮௯",
       "೦೧೨೩೪೫೬೭೮೯",
       "෦෧෨෩෪෫෬෭෮෯",
       "໐໑໒໓໔໕໖໗໘໙",
       "႐႑႒႓႔႕႖႗႘႙",
       "០១២៣៤៥៦៧៨៩",
       "᧐᧑᧒᧓᧔᧕᧖᧗᧘᧙",
       "᪀᪁᪂᪃᪄᪅᪆᪇᪈᪉",
       "᪐᪑᪒᪓᪔᪕᪖᪗᪘᪙",
       "᮰᮱᮲᮳᮴᮵᮶᮷᮸᮹",
       "꣐꣑꣒꣓꣔꣕꣖꣗꣘꣙",
       "꧐꧑꧒꧓꧔꧕꧖꧗꧘꧙",
       "꧰꧱꧲꧳꧴꧵꧶꧷꧸꧹",
       "꯰꯱꯲꯳꯴꯵꯶꯷꯸꯹" >>

DigitChars ==
    UNION {{SubSeq(DecimalDigits[k], d, d) : d \in 1..10} : k \in 1..Len(DecimalDigits)}

IsDigit(c) == c \in DigitChars

StartsWith(s, p) == Len(p) <= Len(s) /\ SubSeq(s, 1, Len(p)) = p

\* s[i-1:] in Python terms: the text from the i-th character on
From(s, i) == SubSeq(s, i, Len(s))

\* index of the first character at or after i that is not whitespace
RECURSIVE SkipSpace(_, _)
SkipSpace(s, i) ==
    IF i <= Len(s) /\ IsSpace(Char(s, i)) THEN SkipSpace(s, i + 1) ELSE i

\* index of the first character at or after i that is not a digit
RECURSIVE SkipDigits(_, _)
SkipDigits(s, i) ==
    IF i <= Len(s) /\ IsDigit(Char(s, i)) THEN SkipDigits(s, i + 1) ELSE i

\* index of the last character at or before i that is not whitespace
RECURSIVE BackSpace(_, _)
BackSpace(s, i) ==
    IF i >= 1 /\ IsSpace(Char(s, i)) THEN BackSpace(s, i - 1) ELSE i

LStrip(s) == From(s, SkipSpace(s, 1))

RStrip(s) == SubSeq(s, 1, BackSpace(s, Len(s)))

Strip(s) == RStrip(LStrip(s))

\* s.find(sub, i-1) + 1: first position >= i where sub occurs, 0 if none
RECURSIVE Find(_, _, _)
Find(s, sub, i) ==
    IF i + Len(sub) - 1 > Len(s) THEN 0
    ELSE IF SubSeq(s, i, i + Len(sub) - 1) = sub THEN i
    ELSE Find(s, sub, i + 1)

Contains(s, sub) == Find(s, sub, 1) # 0

\* s.split(sep) for a non-empty separator
RECURSIVE Split(_, _)
Split(s, sep) ==
    LET k == Find(s, sep, 1)
    IN  IF k = 0 THEN << s >>
        ELSE << SubSeq(s, 1, k - 1) >> \o Split(From(s, k + Len(sep)), sep)

\* sep.join(parts)
RECURSIVE Join(_, _)
Join(parts, sep) ==
    IF parts = << >> THEN ""
    ELSE IF Len(parts) = 1 THEN parts[1]
    ELSE parts[1] \o sep \o Join(Tail(parts), sep)

\* s.replace(old, new)
RECURSIVE Replace(_, _, _)
Replace(s, old, new) ==
    LET k == Find(s, old, 1)
    IN  IF k = 0 THEN s
        ELSE SubSeq(s, 1, k - 1) \o new \o Replace(From(s, k + Len(old)), old, new)

DigitVal(c) ==
    (CHOOSE d \in 1..10 :
        \E k \in 1..Len(DecimalDigits) : Char(DecimalDigits[k], d) = c) - 1

DigitChar(d) == Char("0123456789", d + 1)

\* the value of a non-empty string of decimal digits
RECURSIVE DigitsToInt(_)
DigitsToInt(s) ==
    IF Len(s) = 0 THEN 0
    ELSE 10 * DigitsToInt(SubSeq(s, 1, Len(s) - 1)) + DigitVal(Char(s, Len(s)))

\* str(n) for n >= 0
RECURSIVE NatToStr(_)
NatToStr(n) ==
    IF n < 10 THEN DigitChar(n) ELSE NatToStr(n \div 10) \o DigitChar(n % 10)

\* str(n), as an f-string renders an int
IntToStr(n) == IF n < 0 THEN "-" \o NatToStr(0 - n) ELSE NatToStr(n)

-----------------------------------------------------------------------------
(* repr() of a string                                                      *)

\* the characters a string of this module can hold, in runs of consecutive
\* code points: each run is its first code point and its characters.  The
\* backtick (96) is written ^, and ^ itself (94) cannot be written.
CodeRuns ==
    << << 1, "\t\n\f\r !\"#$%&'()*+,-./0123456789:;<=>?@ABCDEFGHIJKLMNOPQRSTUVWXYZ[\\]" >>,
       << 95, "_^abcdefghijklmnopqrstuvwxyz{|}~ ¡¢£¤¥¦§¨©ª«¬­®¯°±²³´µ¶·¸¹º»¼½¾¿ÀÁÂÃÄÅÆÇÈÉÊËÌÍÎÏÐÑÒÓÔÕÖ×ØÙÚÛÜÝÞ" >>,
       << 223, "ßàáâãäåæçèéêëìíîïðñòóôõö÷øùúûüýþÿ" >>,
       << 384, "ƀƁƂƃƄƅƆƇƈƉƊƋƌƍƎƏƐƑƒƓƔƕƖƗƘƙƚƛƜƝƞƟƠơƢƣƤƥƦƧƨƩƪƫƬƭƮƯưƱƲƳƴƵƶƷƸƹƺƻƼƽƾƿǀǁǂǃǄǅǆǇǈǉǊǋǌǍǎǏǐǑǒǓǔǕǖǗǘǙǚǛǜǝǞǟǠǡǢǣǤǥǦǧǨǩǪǫǬǭǮǯǰǱǲǳǴǵǶǷǸǹǺǻǼǽǾǿ" >>,
       << 640, "ʀʁʂʃʄʅʆʇʈʉʊʋʌʍʎʏʐʑʒʓʔʕʖʗʘʙʚʛʜʝʞʟʠʡʢʣʤʥʦʧʨʩʪʫʬʭʮʯʰʱʲʳʴʵʶʷʸʹʺʻʼʽʾʿˀˁ˂˃˄˅ˆˇˈˉˊˋˌˍˎˏːˑ˒˓˔˕˖˗˘˙˚˛˜˝˞˟ˠˡˢˣˤ˥˦˧˨˩˪˫ˬ˭ˮ˯˰˱˲˳˴˵˶˷˸˹˺˻˼˽˾˿" >>,
       << 896, "΀΁΂΃΄΅Ά·ΈΉΊ΋Ό΍ΎΏΐΑΒΓΔΕΖΗΘΙΚΛΜΝΞΟΠΡ΢ΣΤΥΦΧΨΩΪΫάέήίΰαβγδεζηθικλμνξοπρςστυφχψωϊϋόύώϏϐϑϒϓϔϕϖϗϘϙϚϛϜϝϞϟϠϡϢϣϤϥϦϧϨϩϪϫϬϭϮϯϰϱϲϳϴϵ϶ϷϸϹϺϻϼϽϾϿ" >>,
       << 1152, "Ҁҁ҂҃҄҅҆҇҈҉ҊҋҌҍҎҏҐґҒғҔҕҖҗҘҙҚқҜҝҞҟҠҡҢңҤҥҦҧҨҩҪҫҬҭҮүҰұҲҳҴҵҶҷҸҹҺһҼҽҾҿӀӁӂӃӄӅӆӇӈӉӊӋӌӍӎӏӐӑӒӓӔӕӖӗӘәӚӛӜӝӞӟӠӡӢӣӤӥӦӧӨөӪӫӬӭӮӯӰӱӲӳӴӵӶӷӸӹӺӻӼӽӾӿ" >>,
       << 1408, "րցւփքօֆևֈ։֊֋֌֍֎֏֐ְֱֲֳִֵֶַָֹֺֻּֽ֑֖֛֢֣֤֥֦֧֪֚֭֮֒֓֔֕֗֘֙֜֝֞֟֠֡֨֩֫֬֯־ֿ׀ׁׂ׃ׅׄ׆ׇ׈׉׊׋׌׍׎׏אבגדהוזחטיךכלםמןנסעףפץצקרשת׫׬׭׮ׯװױײ׳״׵׶׷׸׹׺׻׼׽׾׿" >>,
       << 1664, "ڀځڂڃڄڅچڇڈډڊڋڌڍڎڏڐڑڒړڔڕږڗژڙښڛڜڝڞڟڠڡڢڣڤڥڦڧڨکڪګڬڭڮگڰڱڲڳڴڵڶڷڸڹںڻڼڽھڿۀہۂۃۄۅۆۇۈۉۊۋیۍێۏېۑےۓ۔ەۖۗۘۙۚۛۜ۝۞ۣ۟۠ۡۢۤۥۦۧۨ۩۪ۭ۫۬ۮۯ۰۱۲۳۴۵۶۷۸۹ۺۻۼ۽۾ۿ" >>,
       << 1920, "ހށނރބޅކއވމފދތލގޏސޑޒޓޔޕޖޗޘޙޚޛޜޝޞޟޠޡޢޣޤޥަާިީުޫެޭޮޯްޱ޲޳޴޵޶޷޸޹޺޻޼޽޾޿߀߁߂߃߄߅߆߇߈߉ߊߋߌߍߎߏߐߑߒߓߔߕߖߗߘߙߚߛߜߝߞߟߠߡߢߣߤߥߦߧߨߩߪ߲߫߬߭߮߯߰߱߳ߴߵ߶߷߸߹ߺ߻߼߽߾߿" >>,
       << 2176, "ࢀࢁࢂࢃࢄࢅࢆࢇ࢈ࢉࢊࢋࢌࢍࢎ࢏࢐࢑࢒࢓࢔࢕࢖࢙࢚࢛ࢗ࢘࢜࢝࢞࢟ࢠࢡࢢࢣࢤࢥࢦࢧࢨࢩࢪࢫࢬࢭࢮࢯࢰࢱࢲࢳࢴࢵࢶࢷࢸࢹࢺࢻࢼࢽࢾࢿࣀࣁࣂࣃࣄࣅࣆࣇࣈࣉ࣏࣐࣑࣒࣓࣊࣋࣌࣍࣎ࣔࣕࣖࣗࣘࣙࣚࣛࣜࣝࣞࣟ࣠࣡࣢ࣰࣱࣲࣣࣦࣩ࣭࣮࣯ࣶࣹࣺࣤࣥࣧࣨ࣪࣫࣬ࣳࣴࣵࣷࣸࣻࣼࣽࣾࣿ" >>,
       << 2432, "ঀঁংঃ঄অআইঈউঊঋঌ঍঎এঐ঑঒ওঔকখগঘঙচছজঝঞটঠডঢণতথদধন঩পফবভমযর঱ল঳঴঵শষসহ঺঻়ঽািীুূৃৄ৅৆েৈ৉৊োৌ্ৎ৏৐৑৒৓৔৕৖ৗ৘৙৚৛ড়ঢ়৞য়ৠৡৢৣ৤৥০১২৩৪৫৬৭৮৯ৰৱ৲৳৴৵৶৷৸৹৺৻ৼ৽৾৿" >>,
       << 2688, "઀ઁંઃ઄અઆઇઈઉઊઋઌઍ઎એઐઑ઒ઓઔકખગઘઙચછજઝઞટઠડઢણતથદધન઩પફબભમયર઱લળ઴વશષસહ઺઻઼ઽાિીુૂૃૄૅ૆ેૈૉ૊ોૌ્૎૏ૐ૑૒૓૔૕૖૗૘૙૚૛૜૝૞૟ૠૡૢૣ૤૥૦૧૨૩૪૫૬૭૮૯૰૱૲૳૴૵૶૷૸ૹૺૻૼ૽૾૿" >>,
       << 2944, "஀஁ஂஃ஄அஆஇஈஉஊ஋஌஍எஏஐ஑ஒஓஔக஖஗஘ஙச஛ஜ஝ஞட஠஡஢ணத஥஦஧நனப஫஬஭மயரறலளழவஶஷஸஹ஺஻஼஽ாிீுூ௃௄௅ெேை௉ொோௌ்௎௏ௐ௑௒௓௔௕௖ௗ௘௙௚௛௜௝௞௟௠௡௢௣௤௥௦௧௨௩௪௫௬௭௮௯௰௱௲௳௴௵௶௷௸௹௺௻௼௽௾௿" >>,
       << 3200, "ಀಁಂಃ಄ಅಆಇಈಉಊಋಌ಍ಎಏಐ಑ಒಓಔಕಖಗಘಙಚಛಜಝಞಟಠಡಢಣತಥದಧನ಩ಪಫಬಭಮಯರಱಲಳ಴ವಶಷಸಹ಺಻಼ಽಾಿೀುೂೃೄ೅ೆೇೈ೉ೊೋೌ್೎೏೐೑೒೓೔ೕೖ೗೘೙೚೛೜ೝೞ೟ೠೡೢೣ೤೥೦೧೨೩೪೫೬೭೮೯೰ೱೲೳ೴೵೶೷೸೹೺೻೼೽೾೿" >>,
       << 3456, "඀ඁංඃ඄අආඇඈඉඊඋඌඍඎඏඐඑඒඓඔඕඖ඗඘඙කඛගඝඞඟචඡජඣඤඥඦටඨඩඪණඬතථදධන඲ඳපඵබභමඹයර඼ල඾඿වශෂසහළෆ෇෈෉්෋෌෍෎ාැෑිීු෕ූ෗ෘෙේෛොෝෞෟ෠෡෢෣෤෥෦෧෨෩෪෫෬෭෮෯෰෱ෲෳ෴෵෶෷෸෹෺෻෼෽෾෿" >>,
       << 3712, "຀ກຂ຃ຄ຅ຆງຈຉຊ຋ຌຍຎຏຐຑຒຓດຕຖທຘນບປຜຝພຟຠມຢຣ຤ລ຦ວຨຩສຫຬອຮຯະັາຳິີຶື຺ຸູົຼຽ຾຿ເແໂໃໄ໅ໆ໇່້໊໋໌ໍ໎໏໐໑໒໓໔໕໖໗໘໙໚໛ໜໝໞໟ໠໡໢໣໤໥໦໧໨໩໪໫໬໭໮໯໰໱໲໳໴໵໶໷໸໹໺໻໼໽໾໿" >>,
       << 3968, "྄ཱྀྀྂྃ྅྆྇ྈྉྊྋྌྍྎྏྐྑྒྒྷྔྕྖྗ྘ྙྚྛྜྜྷྞྟྠྡྡྷྣྤྥྦྦྷྨྩྪྫྫྷྭྮྯྰྱྲླྴྵྶྷྸྐྵྺྻྼ྽྾྿࿀࿁࿂࿃࿄࿅࿆࿇࿈࿉࿊࿋࿌࿍࿎࿏࿐࿑࿒࿓࿔࿕࿖࿗࿘࿙࿚࿛࿜࿝࿞࿟࿠࿡࿢࿣࿤࿥࿦࿧࿨࿩࿪࿫࿬࿭࿮࿯࿰࿱࿲࿳࿴࿵࿶࿷࿸࿹࿺࿻࿼࿽࿾࿿" >>,
       << 4224, "ႀႁႂႃႄႅႆႇႈႉႊႋႌႍႎႏ႐႑႒႓႔႕႖႗႘႙ႚႛႜႝ႞႟ႠႡႢႣႤႥႦႧႨႩႪႫႬႭႮႯႰႱႲႳႴႵႶႷႸႹႺႻႼႽႾႿჀჁჂჃჄჅ჆Ⴧ჈჉჊჋჌Ⴭ჎჏აბგდევზთიკლმნოპჟრსტუფქღყშჩცძწჭხჯჰჱჲჳჴჵჶჷჸჹჺ჻ჼჽჾჿ" >>,
       << 4480, "ᆀᆁᆂᆃᆄᆅᆆᆇᆈᆉᆊᆋᆌᆍᆎᆏᆐᆑᆒᆓᆔᆕᆖᆗᆘᆙᆚᆛᆜᆝᆞᆟᆠᆡᆢᆣᆤᆥᆦᆧᆨᆩᆪᆫᆬᆭᆮᆯᆰᆱᆲᆳᆴᆵᆶᆷᆸᆹᆺᆻᆼᆽᆾᆿᇀᇁᇂᇃᇄᇅᇆᇇᇈᇉᇊᇋᇌᇍᇎᇏᇐᇑᇒᇓᇔᇕᇖᇗᇘᇙᇚᇛᇜᇝᇞᇟᇠᇡᇢᇣᇤᇥᇦᇧᇨᇩᇪᇫᇬᇭᇮᇯᇰᇱᇲᇳᇴᇵᇶᇷᇸᇹᇺᇻᇼᇽᇾᇿ" >>,
       << 4736, "ኀኁኂኃኄኅኆኇኈ኉ኊኋኌኍ኎኏ነኑኒናኔንኖኗኘኙኚኛኜኝኞኟአኡኢኣኤእኦኧከኩኪካኬክኮኯኰ኱ኲኳኴኵ኶኷ኸኹኺኻኼኽኾ኿ዀ዁ዂዃዄዅ዆዇ወዉዊዋዌውዎዏዐዑዒዓዔዕዖ዗ዘዙዚዛዜዝዞዟዠዡዢዣዤዥዦዧየዩዪያዬይዮዯደዱዲዳዴድዶዷዸዹዺዻዼዽዾዿ" >>,
       << 4992, "ᎀᎁᎂᎃᎄᎅᎆᎇᎈᎉᎊᎋᎌᎍᎎᎏ᎐᎑᎒᎓᎔᎕᎖᎗᎘᎙᎚᎛᎜᎝᎞᎟ᎠᎡᎢᎣᎤᎥᎦᎧᎨᎩᎪᎫᎬᎭᎮᎯᎰᎱᎲᎳᎴᎵᎶᎷᎸᎹᎺᎻᎼᎽᎾᎿᏀᏁᏂᏃᏄᏅᏆᏇᏈᏉᏊᏋᏌᏍᏎᏏᏐᏑᏒᏓᏔᏕᏖᏗᏘᏙᏚᏛᏜᏝᏞᏟᏠᏡᏢᏣᏤᏥᏦᏧᏨᏩᏪᏫᏬᏭᏮᏯᏰᏱᏲᏳᏴᏵ᏶᏷ᏸᏹᏺᏻᏼᏽ᏾᏿" >>,
       << 5248, "ᒀᒁᒂᒃᒄᒅᒆᒇᒈᒉᒊᒋᒌᒍᒎᒏᒐᒑᒒᒓᒔᒕᒖᒗᒘᒙᒚᒛᒜᒝᒞᒟᒠᒡᒢᒣᒤᒥᒦᒧᒨᒩᒪᒫᒬᒭᒮᒯᒰᒱᒲᒳᒴᒵᒶᒷᒸᒹᒺᒻᒼᒽᒾᒿᓀᓁᓂᓃᓄᓅᓆᓇᓈᓉᓊᓋᓌᓍᓎᓏᓐᓑᓒᓓᓔᓕᓖᓗᓘᓙᓚᓛᓜᓝᓞᓟᓠᓡᓢᓣᓤᓥᓦᓧᓨᓩᓪᓫᓬᓭᓮᓯᓰᓱᓲᓳᓴᓵᓶᓷᓸᓹᓺᓻᓼᓽᓾᓿ" >>,
       << 5504, "ᖀᖁᖂᖃᖄᖅᖆᖇᖈᖉᖊᖋᖌᖍᖎᖏᖐᖑᖒᖓᖔᖕᖖᖗᖘᖙᖚᖛᖜᖝᖞᖟᖠᖡᖢᖣᖤᖥᖦᖧᖨᖩᖪᖫᖬᖭᖮᖯᖰᖱᖲᖳᖴᖵᖶᖷᖸᖹᖺᖻᖼᖽᖾᖿᗀᗁᗂᗃᗄᗅᗆᗇᗈᗉᗊᗋᗌᗍᗎᗏᗐᗑᗒᗓᗔᗕᗖᗗᗘᗙᗚᗛᗜᗝᗞᗟᗠᗡᗢᗣᗤᗥᗦᗧᗨᗩᗪᗫᗬᗭᗮᗯᗰᗱᗲᗳᗴᗵᗶᗷᗸᗹᗺᗻᗼᗽᗾᗿ" >>,
       << 5760, " ᚁᚂᚃᚄᚅᚆᚇᚈᚉᚊᚋᚌᚍᚎᚏᚐᚑᚒᚓᚔᚕᚖᚗᚘᚙᚚ᚛᚜᚝᚞᚟ᚠᚡᚢᚣᚤᚥᚦᚧᚨᚩᚪᚫᚬᚭᚮᚯᚰᚱᚲᚳᚴᚵᚶᚷᚸᚹᚺᚻᚼᚽᚾᚿᛀᛁᛂᛃᛄᛅᛆᛇᛈᛉᛊᛋᛌᛍᛎᛏᛐᛑᛒᛓᛔᛕᛖᛗᛘᛙᛚᛛᛜᛝᛞᛟᛠᛡᛢᛣᛤᛥᛦᛧᛨᛩᛪ᛫᛬᛭ᛮᛯᛰᛱᛲᛳᛴᛵᛶᛷᛸ᛹᛺᛻᛼᛽᛾᛿" >>,
       << 6016, "កខគឃងចឆជឈញដឋឌឍណតថទធនបផពភមយរលវឝឞសហឡអឣឤឥឦឧឨឩឪឫឬឭឮឯឰឱឲឳ឴឵ាិីឹឺុូួើឿៀេែៃោៅំះៈ៉៊់៌៍៎៏័៑្៓។៕៖ៗ៘៙៚៛ៜ៝៞៟០១២៣៤៥៦៧៨៩៪៫៬៭៮៯៰៱៲៳៴៵៶៷៸៹៺៻៼៽៾៿" >>,
       << 6272, "ᢀᢁᢂᢃᢄᢅᢆᢇᢈᢉᢊᢋᢌᢍᢎᢏᢐᢑᢒᢓᢔᢕᢖᢗᢘᢙᢚᢛᢜᢝᢞᢟᢠᢡᢢᢣᢤᢥᢦᢧᢨᢩᢪ᢫᢬᢭᢮᢯ᢰᢱᢲᢳᢴᢵᢶᢷᢸᢹᢺᢻᢼᢽᢾᢿᣀᣁᣂᣃᣄᣅᣆᣇᣈᣉᣊᣋᣌᣍᣎᣏᣐᣑᣒᣓᣔᣕᣖᣗᣘᣙᣚᣛᣜᣝᣞᣟᣠᣡᣢᣣᣤᣥᣦᣧᣨᣩᣪᣫᣬᣭᣮᣯᣰᣱᣲᣳᣴᣵ᣶᣷᣸᣹᣺᣻᣼᣽᣾᣿" >>,
       << 6528, "ᦀᦁᦂᦃᦄᦅᦆᦇᦈᦉᦊᦋᦌᦍᦎᦏᦐᦑᦒᦓᦔᦕᦖᦗᦘᦙᦚᦛᦜᦝᦞᦟᦠᦡᦢᦣᦤᦥᦦᦧᦨᦩᦪᦫ᦬᦭᦮᦯ᦰᦱᦲᦳᦴᦵᦶᦷᦸᦹᦺᦻᦼᦽᦾᦿᧀᧁᧂᧃᧄᧅᧆᧇᧈᧉ᧊᧋᧌᧍᧎᧏᧐᧑᧒᧓᧔᧕᧖᧗᧘᧙᧚᧛᧜᧝᧞᧟᧠᧡᧢᧣᧤᧥᧦᧧᧨᧩᧪᧫᧬᧭᧮᧯᧰᧱᧲᧳᧴᧵᧶᧷᧸᧹᧺᧻᧼᧽᧾᧿" >>,
       << 6784, "᪀᪁᪂᪃᪄᪅᪆᪇᪈᪉᪊᪋᪌᪍᪎᪏᪐᪑᪒᪓᪔᪕᪖᪗᪘᪙᪚᪛᪜᪝᪞᪟᪠᪡᪢᪣᪤᪥᪦ᪧ᪨᪩᪪᪫᪬᪭᪮᪯᪵᪶᪷᪸᪹᪺᪽᪰᪱᪲᪳᪴᪻᪼᪾ᪿᫀ᫃᫄᫊᫁᫂᫅᫆᫇᫈᫉᫋ᫌᫍᫎ᫏᫐᫑᫒᫓᫔᫕᫖᫗᫘᫙᫚᫛᫜᫝᫞᫟᫠᫡᫢᫣᫤᫥᫦᫧᫨᫩᫪᫫᫬᫭᫮᫯᫰᫱᫲᫳᫴᫵᫶᫷᫸᫹᫺᫻᫼᫽᫾᫿" >>,
       << 7040, "ᮀᮁᮂᮃᮄᮅᮆᮇᮈᮉᮊᮋᮌᮍᮎᮏᮐᮑᮒᮓᮔᮕᮖᮗᮘᮙᮚᮛᮜᮝᮞᮟᮠᮡᮢᮣᮤᮥᮦᮧᮨᮩ᮪᮫ᮬᮭᮮᮯ᮰᮱᮲᮳᮴᮵᮶᮷᮸᮹ᮺᮻᮼᮽᮾᮿᯀᯁᯂᯃᯄᯅᯆᯇᯈᯉᯊᯋᯌᯍᯎᯏᯐᯑᯒᯓᯔᯕᯖᯗᯘᯙᯚᯛᯜᯝᯞᯟᯠᯡᯢᯣᯤᯥ᯦ᯧᯨᯩᯪᯫᯬᯭᯮᯯᯰᯱ᯲᯳᯴᯵᯶᯷᯸᯹᯺᯻᯼᯽᯾᯿" >>,
       << 7296, "ᲀᲁᲂᲃᲄᲅᲆᲇᲈᲉᲊ᲋᲌᲍᲎᲏ᲐᲑᲒᲓᲔᲕᲖᲗᲘᲙᲚᲛᲜᲝᲞᲟᲠᲡᲢᲣᲤᲥᲦᲧᲨᲩᲪᲫᲬᲭᲮᲯᲰᲱᲲᲳᲴᲵᲶᲷᲸᲹᲺ᲻᲼ᲽᲾᲿ᳀᳁᳂᳃᳄᳅᳆᳇᳈᳉᳊᳋᳌᳍᳎᳏᳐᳑᳒᳓᳔᳕᳖᳗᳘᳙᳜᳝᳞᳟᳚᳛᳠᳡᳢᳣᳤᳥᳦᳧᳨ᳩᳪᳫᳬ᳭ᳮᳯᳰᳱᳲᳳ᳴ᳵᳶ᳷᳸᳹ᳺ᳻᳼᳽᳾᳿" >>,
       << 7552, "ᶀᶁᶂᶃᶄᶅᶆᶇᶈᶉᶊᶋᶌᶍᶎᶏᶐᶑᶒᶓᶔᶕᶖᶗᶘᶙᶚᶛᶜᶝᶞᶟᶠᶡᶢᶣᶤᶥᶦᶧᶨᶩᶪᶫᶬᶭᶮᶯᶰᶱᶲᶳᶴᶵᶶᶷᶸᶹᶺᶻᶼᶽᶾᶿ᷐᷎᷺᷂᷊᷏᷹᷽᷿᷷᷸᷀᷁᷃᷄᷅᷆᷇᷈᷉᷋᷌᷑᷒ᷓᷔᷕᷖᷗᷘᷙᷚᷛᷜᷝᷞᷟᷠᷡᷢᷣᷤᷥᷦᷧᷨᷩᷪᷫᷬᷭᷮᷯᷰᷱᷲᷳᷴ᷵᷻᷾᷶᷼᷍" >>,
       << 7808, "ẀẁẂẃẄẅẆẇẈẉẊẋẌẍẎẏẐẑẒẓẔẕẖẗẘẙẚẛẜẝẞẟẠạẢảẤấẦầẨẩẪẫẬậẮắẰằẲẳẴẵẶặẸẹẺẻẼẽẾếỀềỂểỄễỆệỈỉỊịỌọỎỏỐốỒồỔổỖỗỘộỚớỜờỞởỠỡỢợỤụỦủỨứỪừỬửỮữỰựỲỳỴỵỶỷỸỹỺỻỼỽỾỿ" >>,
       << 8064, "ᾀᾁᾂᾃᾄᾅᾆᾇᾈᾉᾊᾋᾌᾍᾎᾏᾐᾑᾒᾓᾔᾕᾖᾗᾘᾙᾚᾛᾜᾝᾞᾟᾠᾡᾢᾣᾤᾥᾦᾧᾨᾩᾪᾫᾬᾭᾮᾯᾰᾱᾲᾳᾴ᾵ᾶᾷᾸᾹᾺΆᾼ᾽ι᾿῀῁ῂῃῄ῅ῆῇῈΈῊΉῌ῍῎῏ῐῑῒΐ῔῕ῖῗῘῙῚΊ῜῝῞῟ῠῡῢΰῤῥῦῧῨῩῪΎῬ῭΅`῰῱ῲῳῴ῵ῶῷῸΌῺΏῼ´῾῿" >>,
       << 8320, "₀₁₂₃₄₅₆₇₈₉₊₋₌₍₎₏ₐₑₒₓₔₕₖₗₘₙₚₛₜ₝₞₟₠₡₢₣₤₥₦₧₨₩₪₫€₭₮₯₰₱₲₳₴₵₶₷₸₹₺₻₼₽₾₿⃀⃁⃂⃃⃄⃅⃆⃇⃈⃉⃊⃋⃌⃍⃎⃏⃒⃓⃘⃙⃚⃐⃑⃔⃕⃖⃗⃛⃜⃝⃞⃟⃠⃡⃢⃣⃤⃥⃦⃪⃫⃨⃬⃭⃮⃯⃧⃩⃰⃱⃲⃳⃴⃵⃶⃷⃸⃹⃺⃻⃼⃽⃾⃿" >>,
       << 8576, "ↀↁↂↃↄↅↆↇↈ↉↊↋↌↍↎↏←↑→↓↔↕↖↗↘↙↚↛↜↝↞↟↠↡↢↣↤↥↦↧↨↩↪↫↬↭↮↯↰↱↲↳↴↵↶↷↸↹↺↻↼↽↾↿⇀⇁⇂⇃⇄⇅⇆⇇⇈⇉⇊⇋⇌⇍⇎⇏⇐⇑⇒⇓⇔⇕⇖⇗⇘⇙⇚⇛⇜⇝⇞⇟⇠⇡⇢⇣⇤⇥⇦⇧⇨⇩⇪⇫⇬⇭⇮⇯⇰⇱⇲⇳⇴⇵⇶⇷⇸⇹⇺⇻⇼⇽⇾⇿" >>,
       << 8832, "⊀⊁⊂⊃⊄⊅⊆⊇⊈⊉⊊⊋⊌⊍⊎⊏⊐⊑⊒⊓⊔⊕⊖⊗⊘⊙⊚⊛⊜⊝⊞⊟⊠⊡⊢⊣⊤⊥⊦⊧⊨⊩⊪⊫⊬⊭⊮⊯⊰⊱⊲⊳⊴⊵⊶⊷⊸⊹⊺⊻⊼⊽⊾⊿⋀⋁⋂⋃⋄⋅⋆⋇⋈⋉⋊⋋⋌⋍⋎⋏⋐⋑⋒⋓⋔⋕⋖⋗⋘⋙⋚⋛⋜⋝⋞⋟⋠⋡⋢⋣⋤⋥⋦⋧⋨⋩⋪⋫⋬⋭⋮⋯⋰⋱⋲⋳⋴⋵⋶⋷⋸⋹⋺⋻⋼⋽⋾⋿" >>,
       << 9088, "⎀⎁⎂⎃⎄⎅⎆⎇⎈⎉⎊⎋⎌⎍⎎⎏⎐⎑⎒⎓⎔⎕⎖⎗⎘⎙⎚⎛⎜⎝⎞⎟⎠⎡⎢⎣⎤⎥⎦⎧⎨⎩⎪⎫⎬⎭⎮⎯⎰⎱⎲⎳⎴⎵⎶⎷⎸⎹⎺⎻⎼⎽⎾⎿⏀⏁⏂⏃⏄⏅⏆⏇⏈⏉⏊⏋⏌⏍⏎⏏⏐⏑⏒⏓⏔⏕⏖⏗⏘⏙⏚⏛⏜⏝⏞⏟⏠⏡⏢⏣⏤⏥⏦⏧⏨⏩⏪⏫⏬⏭⏮⏯⏰⏱⏲⏳⏴⏵⏶⏷⏸⏹⏺⏻⏼⏽⏾⏿" >>,
       << 9344, "⒀⒁⒂⒃⒄⒅⒆⒇⒈⒉⒊⒋⒌⒍⒎⒏⒐⒑⒒⒓⒔⒕⒖⒗⒘⒙⒚⒛⒜⒝⒞⒟⒠⒡⒢⒣⒤⒥⒦⒧⒨⒩⒪⒫⒬⒭⒮⒯⒰⒱⒲⒳⒴⒵ⒶⒷⒸⒹⒺⒻⒼⒽⒾⒿⓀⓁⓂⓃⓄⓅⓆⓇⓈⓉⓊⓋⓌⓍⓎⓏⓐⓑⓒⓓⓔⓕⓖⓗⓘⓙⓚⓛⓜⓝⓞⓟⓠⓡⓢⓣⓤⓥⓦⓧⓨⓩ⓪⓫⓬⓭⓮⓯⓰⓱⓲⓳⓴⓵⓶⓷⓸⓹⓺⓻⓼⓽⓾⓿" >>,
       << 9600, "▀▁▂▃▄▅▆▇█▉▊▋▌▍▎▏▐░▒▓▔▕▖▗▘▙▚▛▜▝▞▟■□▢▣▤▥▦▧▨▩▪▫▬▭▮▯▰▱▲△▴▵▶▷▸▹►▻▼▽▾▿◀◁◂◃◄◅◆◇◈◉◊○◌◍◎●◐◑◒◓◔◕◖◗◘◙◚◛◜◝◞◟◠◡◢◣◤◥◦◧◨◩◪◫◬◭◮◯◰◱◲◳◴◵◶◷◸◹◺◻◼◽◾◿" >>,
       << 9856, "⚀⚁⚂⚃⚄⚅⚆⚇⚈⚉⚊⚋⚌⚍⚎⚏⚐⚑⚒⚓⚔⚕⚖⚗⚘⚙⚚⚛⚜⚝⚞⚟⚠⚡⚢⚣⚤⚥⚦⚧⚨⚩⚪⚫⚬⚭⚮⚯⚰⚱⚲⚳⚴⚵⚶⚷⚸⚹⚺⚻⚼⚽⚾⚿⛀⛁⛂⛃⛄⛅⛆⛇⛈⛉⛊⛋⛌⛍⛎⛏⛐⛑⛒⛓⛔⛕⛖⛗⛘⛙⛚⛛⛜⛝⛞⛟⛠⛡⛢⛣⛤⛥⛦⛧⛨⛩⛪⛫⛬⛭⛮⛯⛰⛱⛲⛳⛴⛵⛶⛷⛸⛹⛺⛻⛼⛽⛾⛿" >>,
       << 10112, "➀➁➂➃➄➅➆➇➈➉➊➋➌➍➎➏➐➑➒➓➔➕➖➗➘➙➚➛➜➝➞➟➠➡➢➣➤➥➦➧➨➩➪➫➬➭➮➯➰➱➲➳➴➵➶➷➸➹➺➻➼➽➾➿⟀⟁⟂⟃⟄⟅⟆⟇⟈⟉⟊⟋⟌⟍⟎⟏⟐⟑⟒⟓⟔⟕⟖⟗⟘⟙⟚⟛⟜⟝⟞⟟⟠⟡⟢⟣⟤⟥⟦⟧⟨⟩⟪⟫⟬⟭⟮⟯⟰⟱⟲⟳⟴⟵⟶⟷⟸⟹⟺⟻⟼⟽⟾⟿" >>,
       << 10368, "⢀⢁⢂⢃⢄⢅⢆⢇⢈⢉⢊⢋⢌⢍⢎⢏⢐⢑⢒⢓⢔⢕⢖⢗⢘⢙⢚⢛⢜⢝⢞⢟⢠⢡⢢⢣⢤⢥⢦⢧⢨⢩⢪⢫⢬⢭⢮⢯⢰⢱⢲⢳⢴⢵⢶⢷⢸⢹⢺⢻⢼⢽⢾⢿⣀⣁⣂⣃⣄⣅⣆⣇⣈⣉⣊⣋⣌⣍⣎⣏⣐⣑⣒⣓⣔⣕⣖⣗⣘⣙⣚⣛⣜⣝⣞⣟⣠⣡⣢⣣⣤⣥⣦⣧⣨⣩⣪⣫⣬⣭⣮⣯⣰⣱⣲⣳⣴⣵⣶⣷⣸⣹⣺⣻⣼⣽⣾⣿" >>,
       << 10624, "⦀⦁⦂⦃⦄⦅⦆⦇⦈⦉⦊⦋⦌⦍⦎⦏⦐⦑⦒⦓⦔⦕⦖⦗⦘⦙⦚⦛⦜⦝⦞⦟⦠⦡⦢⦣⦤⦥⦦⦧⦨⦩⦪⦫⦬⦭⦮⦯⦰⦱⦲⦳⦴⦵⦶⦷⦸⦹⦺⦻⦼⦽⦾⦿⧀⧁⧂⧃⧄⧅⧆⧇⧈⧉⧊⧋⧌⧍⧎⧏⧐⧑⧒⧓⧔⧕⧖⧗⧘⧙⧚⧛⧜⧝⧞⧟⧠⧡⧢⧣⧤⧥⧦⧧⧨⧩⧪⧫⧬⧭⧮⧯⧰⧱⧲⧳⧴⧵⧶⧷⧸⧹⧺⧻⧼⧽⧾⧿" >>,
       << 10880, "⪀⪁⪂⪃⪄⪅⪆⪇⪈⪉⪊⪋⪌⪍⪎⪏⪐⪑⪒⪓⪔⪕⪖⪗⪘⪙⪚⪛⪜⪝⪞⪟⪠⪡⪢⪣⪤⪥⪦⪧⪨⪩⪪⪫⪬⪭⪮⪯⪰⪱⪲⪳⪴⪵⪶⪷⪸⪹⪺⪻⪼⪽⪾⪿⫀⫁⫂⫃⫄⫅⫆⫇⫈⫉⫊⫋⫌⫍⫎⫏⫐⫑⫒⫓⫔⫕⫖⫗⫘⫙⫚⫛⫝̸⫝⫞⫟⫠⫡⫢⫣⫤⫥⫦⫧⫨⫩⫪⫫⫬⫭⫮⫯⫰⫱⫲⫳⫴⫵⫶⫷⫸⫹⫺⫻⫼⫽⫾⫿" >>,
       << 11136, "⮀⮁⮂⮃⮄⮅⮆⮇⮈⮉⮊⮋⮌⮍⮎⮏⮐⮑⮒⮓⮔⮕⮖⮗⮘⮙⮚⮛⮜⮝⮞⮟⮠⮡⮢⮣⮤⮥⮦⮧⮨⮩⮪⮫⮬⮭⮮⮯⮰⮱⮲⮳⮴⮵⮶⮷⮸⮹⮺⮻⮼⮽⮾⮿⯀⯁⯂⯃⯄⯅⯆⯇⯈⯉⯊⯋⯌⯍⯎⯏⯐⯑⯒⯓⯔⯕⯖⯗⯘⯙⯚⯛⯜⯝⯞⯟⯠⯡⯢⯣⯤⯥⯦⯧⯨⯩⯪⯫⯬⯭⯮⯯⯰⯱⯲⯳⯴⯵⯶⯷⯸⯹⯺⯻⯼⯽⯾⯿" >>,
       << 11392, "ⲀⲁⲂⲃⲄⲅⲆⲇⲈⲉⲊⲋⲌⲍⲎⲏⲐⲑⲒⲓⲔⲕⲖⲗⲘⲙⲚⲛⲜⲝⲞⲟⲠⲡⲢⲣⲤⲥⲦⲧⲨⲩⲪⲫⲬⲭⲮⲯⲰⲱⲲⲳⲴⲵⲶⲷⲸⲹⲺⲻⲼⲽⲾⲿⳀⳁⳂⳃⳄⳅⳆⳇⳈⳉⳊⳋⳌⳍⳎⳏⳐⳑⳒⳓⳔⳕⳖⳗⳘⳙⳚⳛⳜⳝⳞⳟⳠⳡⳢⳣⳤ⳥⳦⳧⳨⳩⳪ⳫⳬⳭⳮ⳯⳰⳱Ⳳⳳ⳴⳵⳶⳷⳸⳹⳺⳻⳼⳽⳾⳿" >>,
       << 11648, "ⶀⶁⶂⶃⶄⶅⶆⶇⶈⶉⶊⶋⶌⶍⶎⶏⶐⶑⶒⶓⶔⶕⶖ⶗⶘⶙⶚⶛⶜⶝⶞⶟ⶠⶡⶢⶣⶤⶥⶦ⶧ⶨⶩⶪⶫⶬⶭⶮ⶯ⶰⶱⶲⶳⶴⶵⶶ⶷ⶸⶹⶺⶻⶼⶽⶾ⶿ⷀⷁⷂⷃⷄⷅⷆ⷇ⷈⷉⷊⷋⷌⷍⷎ⷏ⷐⷑⷒⷓⷔⷕⷖ⷗ⷘⷙⷚⷛⷜⷝⷞ⷟ⷠⷡⷢⷣⷤⷥⷦⷧⷨⷩⷪⷫⷬⷭⷮⷯⷰⷱⷲⷳⷴⷵⷶⷷⷸⷹⷺⷻⷼⷽⷾⷿ" >>,
       << 11904, "⺀⺁⺂⺃⺄⺅⺆⺇⺈⺉⺊⺋⺌⺍⺎⺏⺐⺑⺒⺓⺔⺕⺖⺗⺘⺙⺚⺛⺜⺝⺞⺟⺠⺡⺢⺣⺤⺥⺦⺧⺨⺩⺪⺫⺬⺭⺮⺯⺰⺱⺲⺳⺴⺵⺶⺷⺸⺹⺺⺻⺼⺽⺾⺿⻀⻁⻂⻃⻄⻅⻆⻇⻈⻉⻊⻋⻌⻍⻎⻏⻐⻑⻒⻓⻔⻕⻖⻗⻘⻙⻚⻛⻜⻝⻞⻟⻠⻡⻢⻣⻤⻥⻦⻧⻨⻩⻪⻫⻬⻭⻮⻯⻰⻱⻲⻳⻴⻵⻶⻷⻸⻹⻺⻻⻼⻽⻾⻿" >>,
       << 12160, "⾀⾁⾂⾃⾄⾅⾆⾇⾈⾉⾊⾋⾌⾍⾎⾏⾐⾑⾒⾓⾔⾕⾖⾗⾘⾙⾚⾛⾜⾝⾞⾟⾠⾡⾢⾣⾤⾥⾦⾧⾨⾩⾪⾫⾬⾭⾮⾯⾰⾱⾲⾳⾴⾵⾶⾷⾸⾹⾺⾻⾼⾽⾾⾿⿀⿁⿂⿃⿄⿅⿆⿇⿈⿉⿊⿋⿌⿍⿎⿏⿐⿑⿒⿓⿔⿕⿖⿗⿘⿙⿚⿛⿜⿝⿞⿟⿠⿡⿢⿣⿤⿥⿦⿧⿨⿩⿪⿫⿬⿭⿮⿯⿰⿱⿲⿳⿴⿵⿶⿷⿸⿹⿺⿻⿼⿽⿾⿿" >>,
       << 12416, "むめもゃやゅゆょよらりるれろゎわゐゑをんゔゕゖ゗゘゙゚゛゜ゝゞゟ゠ァアィイゥウェエォオカガキギクグケゲコゴサザシジスズセゼソゾタダチヂッツヅテデトドナニヌネノハバパヒビピフブプヘベペホボポマミムメモャヤュユョヨラリルレロヮワヰヱヲンヴヵヶヷヸヹヺ・ーヽヾヿ" >>,
       << 12672, "ㆀㆁㆂㆃㆄㆅㆆㆇㆈㆉㆊㆋㆌㆍㆎ㆏㆐㆑㆒㆓㆔㆕㆖㆗㆘㆙㆚㆛㆜㆝㆞㆟ㆠㆡㆢㆣㆤㆥㆦㆧㆨㆩㆪㆫㆬㆭㆮㆯㆰㆱㆲㆳㆴㆵㆶㆷㆸㆹㆺㆻㆼㆽㆾㆿ㇀㇁㇂㇃㇄㇅㇆㇇㇈㇉㇊㇋㇌㇍㇎㇏㇐㇑㇒㇓㇔㇕㇖㇗㇘㇙㇚㇛㇜㇝㇞㇟㇠㇡㇢㇣㇤㇥㇦㇧㇨㇩㇪㇫㇬㇭㇮㇯ㇰㇱㇲㇳㇴㇵㇶㇷㇸㇹㇺㇻㇼㇽㇾㇿ" >>,
       << 12928, "㊀㊁㊂㊃㊄㊅㊆㊇㊈㊉㊊㊋㊌㊍㊎㊏㊐㊑㊒㊓㊔㊕㊖㊗㊘㊙㊚㊛㊜㊝㊞㊟㊠㊡㊢㊣㊤㊥㊦㊧㊨㊩㊪㊫㊬㊭㊮㊯㊰㊱㊲㊳㊴㊵㊶㊷㊸㊹㊺㊻㊼㊽㊾㊿㋀㋁㋂㋃㋄㋅㋆㋇㋈㋉㋊㋋㋌㋍㋎㋏㋐㋑㋒㋓㋔㋕㋖㋗㋘㋙㋚㋛㋜㋝㋞㋟㋠㋡㋢㋣㋤㋥㋦㋧㋨㋩㋪㋫㋬㋭㋮㋯㋰㋱㋲㋳㋴㋵㋶㋷㋸㋹㋺㋻㋼㋽㋾㋿" >>,
       << 13184, "㎀㎁㎂㎃㎄㎅㎆㎇㎈㎉㎊㎋㎌㎍㎎㎏㎐㎑㎒㎓㎔㎕㎖㎗㎘㎙㎚㎛㎜㎝㎞㎟㎠㎡㎢㎣㎤㎥㎦㎧㎨㎩㎪㎫㎬㎭㎮㎯㎰㎱㎲㎳㎴㎵㎶㎷㎸㎹㎺㎻㎼㎽㎾㎿㏀㏁㏂㏃㏄㏅㏆㏇㏈㏉㏊㏋㏌㏍㏎㏏㏐㏑㏒㏓㏔㏕㏖㏗㏘㏙㏚㏛㏜㏝㏞㏟㏠㏡㏢㏣㏤㏥㏦㏧㏨㏩㏪㏫㏬㏭㏮㏯㏰㏱㏲㏳㏴㏵㏶㏷㏸㏹㏺㏻㏼㏽㏾㏿" >>,
       << 13440, "㒀㒁㒂㒃㒄㒅㒆㒇㒈㒉㒊㒋㒌㒍㒎㒏㒐㒑㒒㒓㒔㒕㒖㒗㒘㒙㒚㒛㒜㒝㒞㒟㒠㒡㒢㒣㒤㒥㒦㒧㒨㒩㒪㒫㒬㒭㒮㒯㒰㒱㒲㒳㒴㒵㒶㒷㒸㒹㒺㒻㒼㒽㒾㒿㓀㓁㓂㓃㓄㓅㓆㓇㓈㓉㓊㓋㓌㓍㓎㓏㓐㓑㓒㓓㓔㓕㓖㓗㓘㓙㓚㓛㓜㓝㓞㓟㓠㓡㓢㓣㓤㓥㓦㓧㓨㓩㓪㓫㓬㓭㓮㓯㓰㓱㓲㓳㓴㓵㓶㓷㓸㓹㓺㓻㓼㓽㓾㓿" >>,
       << 13696, "㖀㖁㖂㖃㖄㖅㖆㖇㖈㖉㖊㖋㖌㖍㖎㖏㖐㖑㖒㖓㖔㖕㖖㖗㖘㖙㖚㖛㖜㖝㖞㖟㖠㖡㖢㖣㖤㖥㖦㖧㖨㖩㖪㖫㖬㖭㖮㖯㖰㖱㖲㖳㖴㖵㖶㖷㖸㖹㖺㖻㖼㖽㖾㖿㗀㗁㗂㗃㗄㗅㗆㗇㗈㗉㗊㗋㗌㗍㗎㗏㗐㗑㗒㗓㗔㗕㗖㗗㗘㗙㗚㗛㗜㗝㗞㗟㗠㗡㗢㗣㗤㗥㗦㗧㗨㗩㗪㗫㗬㗭㗮㗯㗰㗱㗲㗳㗴㗵㗶㗷㗸㗹㗺㗻㗼㗽㗾㗿" >>,
       << 13952, "㚀㚁㚂㚃㚄㚅㚆㚇㚈㚉㚊㚋㚌㚍㚎㚏㚐㚑㚒㚓㚔㚕㚖㚗㚘㚙㚚㚛㚜㚝㚞㚟㚠㚡㚢㚣㚤㚥㚦㚧㚨㚩㚪㚫㚬㚭㚮㚯㚰㚱㚲㚳㚴㚵㚶㚷㚸㚹㚺㚻㚼㚽㚾㚿㛀㛁㛂㛃㛄㛅㛆㛇㛈㛉㛊㛋㛌㛍㛎㛏㛐㛑㛒㛓㛔㛕㛖㛗㛘㛙㛚㛛㛜㛝㛞㛟㛠㛡㛢㛣㛤㛥㛦㛧㛨㛩㛪㛫㛬㛭㛮㛯㛰㛱㛲㛳㛴㛵㛶㛷㛸㛹㛺㛻㛼㛽㛾㛿" >>,
       << 14208, "㞀㞁㞂㞃㞄㞅㞆㞇㞈㞉㞊㞋㞌㞍㞎㞏㞐㞑㞒㞓㞔㞕㞖㞗㞘㞙㞚㞛㞜㞝㞞㞟㞠㞡㞢㞣㞤㞥㞦㞧㞨㞩㞪㞫㞬㞭㞮㞯㞰㞱㞲㞳㞴㞵㞶㞷㞸㞹㞺㞻㞼㞽㞾㞿㟀㟁㟂㟃㟄㟅㟆㟇㟈㟉㟊㟋㟌㟍㟎㟏㟐㟑㟒㟓㟔㟕㟖㟗㟘㟙㟚㟛㟜㟝㟞㟟㟠㟡㟢㟣㟤㟥㟦㟧㟨㟩㟪㟫㟬㟭㟮㟯㟰㟱㟲㟳㟴㟵㟶㟷㟸㟹㟺㟻㟼㟽㟾㟿" >>,
       << 14464, "㢀㢁㢂㢃㢄㢅㢆㢇㢈㢉㢊㢋㢌㢍㢎㢏㢐㢑㢒㢓㢔㢕㢖㢗㢘㢙㢚㢛㢜㢝㢞㢟㢠㢡㢢㢣㢤㢥㢦㢧㢨㢩㢪㢫㢬㢭㢮㢯㢰㢱㢲㢳㢴㢵㢶㢷㢸㢹㢺㢻㢼㢽㢾㢿㣀㣁㣂㣃㣄㣅㣆㣇㣈㣉㣊㣋㣌㣍㣎㣏㣐㣑㣒㣓㣔㣕㣖㣗㣘㣙㣚㣛㣜㣝㣞㣟㣠㣡㣢㣣㣤㣥㣦㣧㣨㣩㣪㣫㣬㣭㣮㣯㣰㣱㣲㣳㣴㣵㣶㣷㣸㣹㣺㣻㣼㣽㣾㣿" >>,
       << 14720, "㦀㦁㦂㦃㦄㦅㦆㦇㦈㦉㦊㦋㦌㦍㦎㦏㦐㦑㦒㦓㦔㦕㦖㦗㦘㦙㦚㦛㦜㦝㦞㦟㦠㦡㦢㦣㦤㦥㦦㦧㦨㦩㦪㦫㦬㦭㦮㦯㦰㦱㦲㦳㦴㦵㦶㦷㦸㦹㦺㦻㦼㦽㦾㦿㧀㧁㧂㧃㧄㧅㧆㧇㧈㧉㧊㧋㧌㧍㧎㧏㧐㧑㧒㧓㧔㧕㧖㧗㧘㧙㧚㧛㧜㧝㧞㧟㧠㧡㧢㧣㧤㧥㧦㧧㧨㧩㧪㧫㧬㧭㧮㧯㧰㧱㧲㧳㧴㧵㧶㧷㧸㧹㧺㧻㧼㧽㧾㧿" >>,
       << 14976, "㪀㪁㪂㪃㪄㪅㪆㪇㪈㪉㪊㪋㪌㪍㪎㪏㪐㪑㪒㪓㪔㪕㪖㪗㪘㪙㪚㪛㪜㪝㪞㪟㪠㪡㪢㪣㪤㪥㪦㪧㪨㪩㪪㪫㪬㪭㪮㪯㪰㪱㪲㪳㪴㪵㪶㪷㪸㪹㪺㪻㪼㪽㪾㪿㫀㫁㫂㫃㫄㫅㫆㫇㫈㫉㫊㫋㫌㫍㫎㫏㫐㫑㫒㫓㫔㫕㫖㫗㫘㫙㫚㫛㫜㫝㫞㫟㫠㫡㫢㫣㫤㫥㫦㫧㫨㫩㫪㫫㫬㫭㫮㫯㫰㫱㫲㫳㫴㫵㫶㫷㫸㫹㫺㫻㫼㫽㫾㫿" >>,
       << 15232, "㮀㮁㮂㮃㮄㮅㮆㮇㮈㮉㮊㮋㮌㮍㮎㮏㮐㮑㮒㮓㮔㮕㮖㮗㮘㮙㮚㮛㮜㮝㮞㮟㮠㮡㮢㮣㮤㮥㮦㮧㮨㮩㮪㮫㮬㮭㮮㮯㮰㮱㮲㮳㮴㮵㮶㮷㮸㮹㮺㮻㮼㮽㮾㮿㯀㯁㯂㯃㯄㯅㯆㯇㯈㯉㯊㯋㯌㯍㯎㯏㯐㯑㯒㯓㯔㯕㯖㯗㯘㯙㯚㯛㯜㯝㯞㯟㯠㯡㯢㯣㯤㯥㯦㯧㯨㯩㯪㯫㯬㯭㯮㯯㯰㯱㯲㯳㯴㯵㯶㯷㯸㯹㯺㯻㯼㯽㯾㯿" >>,
       << 15488, "㲀㲁㲂㲃㲄㲅㲆㲇㲈㲉㲊㲋㲌㲍㲎㲏㲐㲑㲒㲓㲔㲕㲖㲗㲘㲙㲚㲛㲜㲝㲞㲟㲠㲡㲢㲣㲤㲥㲦㲧㲨㲩㲪㲫㲬㲭㲮㲯㲰㲱㲲㲳㲴㲵㲶㲷㲸㲹㲺㲻㲼㲽㲾㲿㳀㳁㳂㳃㳄㳅㳆㳇㳈㳉㳊㳋㳌㳍㳎㳏㳐㳑㳒㳓㳔㳕㳖㳗㳘㳙㳚㳛㳜㳝㳞㳟㳠㳡㳢㳣㳤㳥㳦㳧㳨㳩㳪㳫㳬㳭㳮㳯㳰㳱㳲㳳㳴㳵㳶㳷㳸㳹㳺㳻㳼㳽㳾㳿" >>,
       << 15744, "㶀㶁㶂㶃㶄㶅㶆㶇㶈㶉㶊㶋㶌㶍㶎㶏㶐㶑㶒㶓㶔㶕㶖㶗㶘㶙㶚㶛㶜㶝㶞㶟㶠㶡㶢㶣㶤㶥㶦㶧㶨㶩㶪㶫㶬㶭㶮㶯㶰㶱㶲㶳㶴㶵㶶㶷㶸㶹㶺㶻㶼㶽㶾㶿㷀㷁㷂㷃㷄㷅㷆㷇㷈㷉㷊㷋㷌㷍㷎㷏㷐㷑㷒㷓㷔㷕㷖㷗㷘㷙㷚㷛㷜㷝㷞㷟㷠㷡㷢㷣㷤㷥㷦㷧㷨㷩㷪㷫㷬㷭㷮㷯㷰㷱㷲㷳㷴㷵㷶㷷㷸㷹㷺㷻㷼㷽㷾㷿" >>,
       << 16000, "㺀㺁㺂㺃㺄㺅㺆㺇㺈㺉㺊㺋㺌㺍㺎㺏㺐㺑㺒㺓㺔㺕㺖㺗㺘㺙㺚㺛㺜㺝㺞㺟㺠㺡㺢㺣㺤㺥㺦㺧㺨㺩㺪㺫㺬㺭㺮㺯㺰㺱㺲㺳㺴㺵㺶㺷㺸㺹㺺㺻㺼㺽㺾㺿㻀㻁㻂㻃㻄㻅㻆㻇㻈㻉㻊㻋㻌㻍㻎㻏㻐㻑㻒㻓㻔㻕㻖㻗㻘㻙㻚㻛㻜㻝㻞㻟㻠㻡㻢㻣㻤㻥㻦㻧㻨㻩㻪㻫㻬㻭㻮㻯㻰㻱㻲㻳㻴㻵㻶㻷㻸㻹㻺㻻㻼㻽㻾㻿" >>,
       << 16256, "㾀㾁㾂㾃㾄㾅㾆㾇㾈㾉㾊㾋㾌㾍㾎㾏㾐㾑㾒㾓㾔㾕㾖㾗㾘㾙㾚㾛㾜㾝㾞㾟㾠㾡㾢㾣㾤㾥㾦㾧㾨㾩㾪㾫㾬㾭㾮㾯㾰㾱㾲㾳㾴㾵㾶㾷㾸㾹㾺㾻㾼㾽㾾㾿㿀㿁㿂㿃㿄㿅㿆㿇㿈㿉㿊㿋㿌㿍㿎㿏㿐㿑㿒㿓㿔㿕㿖㿗㿘㿙㿚㿛㿜㿝㿞㿟㿠㿡㿢㿣㿤㿥㿦㿧㿨㿩㿪㿫㿬㿭㿮㿯㿰㿱㿲㿳㿴㿵㿶㿷㿸㿹㿺㿻㿼㿽㿾㿿" >>,
       << 16512, "䂀䂁䂂䂃䂄䂅䂆䂇䂈䂉䂊䂋䂌䂍䂎䂏䂐䂑䂒䂓䂔䂕䂖䂗䂘䂙䂚䂛䂜䂝䂞䂟䂠䂡䂢䂣䂤䂥䂦䂧䂨䂩䂪䂫䂬䂭䂮䂯䂰䂱䂲䂳䂴䂵䂶䂷䂸䂹䂺䂻䂼䂽䂾䂿䃀䃁䃂䃃䃄䃅䃆䃇䃈䃉䃊䃋䃌䃍䃎䃏䃐䃑䃒䃓䃔䃕䃖䃗䃘䃙䃚䃛䃜䃝䃞䃟䃠䃡䃢䃣䃤䃥䃦䃧䃨䃩䃪䃫䃬䃭䃮䃯䃰䃱䃲䃳䃴䃵䃶䃷䃸䃹䃺䃻䃼䃽䃾䃿" >>,
       << 16768, "䆀䆁䆂䆃䆄䆅䆆䆇䆈䆉䆊䆋䆌䆍䆎䆏䆐䆑䆒䆓䆔䆕䆖䆗䆘䆙䆚䆛䆜䆝䆞䆟䆠䆡䆢䆣䆤䆥䆦䆧䆨䆩䆪䆫䆬䆭䆮䆯䆰䆱䆲䆳䆴䆵䆶䆷䆸䆹䆺䆻䆼䆽䆾䆿䇀䇁䇂䇃䇄䇅䇆䇇䇈䇉䇊䇋䇌䇍䇎䇏䇐䇑䇒䇓䇔䇕䇖䇗䇘䇙䇚䇛䇜䇝䇞䇟䇠䇡䇢䇣䇤䇥䇦䇧䇨䇩䇪䇫䇬䇭䇮䇯䇰䇱䇲䇳䇴䇵䇶䇷䇸䇹䇺䇻䇼䇽䇾䇿" >>,
       << 17024, "䊀䊁䊂䊃䊄䊅䊆䊇䊈䊉䊊䊋䊌䊍䊎䊏䊐䊑䊒䊓䊔䊕䊖䊗䊘䊙䊚䊛䊜䊝䊞䊟䊠䊡䊢䊣䊤䊥䊦䊧䊨䊩䊪䊫䊬䊭䊮䊯䊰䊱䊲䊳䊴䊵䊶䊷䊸䊹䊺䊻䊼䊽䊾䊿䋀䋁䋂䋃䋄䋅䋆䋇䋈䋉䋊䋋䋌䋍䋎䋏䋐䋑䋒䋓䋔䋕䋖䋗䋘䋙䋚䋛䋜䋝䋞䋟䋠䋡䋢䋣䋤䋥䋦䋧䋨䋩䋪䋫䋬䋭䋮䋯䋰䋱䋲䋳䋴䋵䋶䋷䋸䋹䋺䋻䋼䋽䋾䋿" >>,
       << 17280, "䎀䎁䎂䎃䎄䎅䎆䎇䎈䎉䎊䎋䎌䎍䎎䎏䎐䎑䎒䎓䎔䎕䎖䎗䎘䎙䎚䎛䎜䎝䎞䎟䎠䎡䎢䎣䎤䎥䎦䎧䎨䎩䎪䎫䎬䎭䎮䎯䎰䎱䎲䎳䎴䎵䎶䎷䎸䎹䎺䎻䎼䎽䎾䎿䏀䏁䏂䏃䏄䏅䏆䏇䏈䏉䏊䏋䏌䏍䏎䏏䏐䏑䏒䏓䏔䏕䏖䏗䏘䏙䏚䏛䏜䏝䏞䏟䏠䏡䏢䏣䏤䏥䏦䏧䏨䏩䏪䏫䏬䏭䏮䏯䏰䏱䏲䏳䏴䏵䏶䏷䏸䏹䏺䏻䏼䏽䏾䏿" >>,
       << 17536, "䒀䒁䒂䒃䒄䒅䒆䒇䒈䒉䒊䒋䒌䒍䒎䒏䒐䒑䒒䒓䒔䒕䒖䒗䒘䒙䒚䒛䒜䒝䒞䒟䒠䒡䒢䒣䒤䒥䒦䒧䒨䒩䒪䒫䒬䒭䒮䒯䒰䒱䒲䒳䒴䒵䒶䒷䒸䒹䒺䒻䒼䒽䒾䒿䓀䓁䓂䓃䓄䓅䓆䓇䓈䓉䓊䓋䓌䓍䓎䓏䓐䓑䓒䓓䓔䓕䓖䓗䓘䓙䓚䓛䓜䓝䓞䓟䓠䓡䓢䓣䓤䓥䓦䓧䓨䓩䓪䓫䓬䓭䓮䓯䓰䓱䓲䓳䓴䓵䓶䓷䓸䓹䓺䓻䓼䓽䓾䓿" >>,
       << 17792, "䖀䖁䖂䖃䖄䖅䖆䖇䖈䖉䖊䖋䖌䖍䖎䖏䖐䖑䖒䖓䖔䖕䖖䖗䖘䖙䖚䖛䖜䖝䖞䖟䖠䖡䖢䖣䖤䖥䖦䖧䖨䖩䖪䖫䖬䖭䖮䖯䖰䖱䖲䖳䖴䖵䖶䖷䖸䖹䖺䖻䖼䖽䖾䖿䗀䗁䗂䗃䗄䗅䗆䗇䗈䗉䗊䗋䗌䗍䗎䗏䗐䗑䗒䗓䗔䗕䗖䗗䗘䗙䗚䗛䗜䗝䗞䗟䗠䗡䗢䗣䗤䗥䗦䗧䗨䗩䗪䗫䗬䗭䗮䗯䗰䗱䗲䗳䗴䗵䗶䗷䗸䗹䗺䗻䗼䗽䗾䗿" >>,
       << 18048, "䚀䚁䚂䚃䚄䚅䚆䚇䚈䚉䚊䚋䚌䚍䚎䚏䚐䚑䚒䚓䚔䚕䚖䚗䚘䚙䚚䚛䚜䚝䚞䚟䚠䚡䚢䚣䚤䚥䚦䚧䚨䚩䚪䚫䚬䚭䚮䚯䚰䚱䚲䚳䚴䚵䚶䚷䚸䚹䚺䚻䚼䚽䚾䚿䛀䛁䛂䛃䛄䛅䛆䛇䛈䛉䛊䛋䛌䛍䛎䛏䛐䛑䛒䛓䛔䛕䛖䛗䛘䛙䛚䛛䛜䛝䛞䛟䛠䛡䛢䛣䛤䛥䛦䛧䛨䛩䛪䛫䛬䛭䛮䛯䛰䛱䛲䛳䛴䛵䛶䛷䛸䛹䛺䛻䛼䛽䛾䛿" >>,
       << 18304, "䞀䞁䞂䞃䞄䞅䞆䞇䞈䞉䞊䞋䞌䞍䞎䞏䞐䞑䞒䞓䞔䞕䞖䞗䞘䞙䞚䞛䞜䞝䞞䞟䞠䞡䞢䞣䞤䞥䞦䞧䞨䞩䞪䞫䞬䞭䞮䞯䞰䞱䞲䞳䞴䞵䞶䞷䞸䞹䞺䞻䞼䞽䞾䞿䟀䟁䟂䟃䟄䟅䟆䟇䟈䟉䟊䟋䟌䟍䟎䟏䟐䟑䟒䟓䟔䟕䟖䟗䟘䟙䟚䟛䟜䟝䟞䟟䟠䟡䟢䟣䟤䟥䟦䟧䟨䟩䟪䟫䟬䟭䟮䟯䟰䟱䟲䟳䟴䟵䟶䟷䟸䟹䟺䟻䟼䟽䟾䟿" >>,
       << 18560, "䢀䢁䢂䢃䢄䢅䢆䢇䢈䢉䢊䢋䢌䢍䢎䢏䢐䢑䢒䢓䢔䢕䢖䢗䢘䢙䢚䢛䢜䢝䢞䢟䢠䢡䢢䢣䢤䢥䢦䢧䢨䢩䢪䢫䢬䢭䢮䢯䢰䢱䢲䢳䢴䢵䢶䢷䢸䢹䢺䢻䢼䢽䢾䢿䣀䣁䣂䣃䣄䣅䣆䣇䣈䣉䣊䣋䣌䣍䣎䣏䣐䣑䣒䣓䣔䣕䣖䣗䣘䣙䣚䣛䣜䣝䣞䣟䣠䣡䣢䣣䣤䣥䣦䣧䣨䣩䣪䣫䣬䣭䣮䣯䣰䣱䣲䣳䣴䣵䣶䣷䣸䣹䣺䣻䣼䣽䣾䣿" >>,
       << 18816, "䦀䦁䦂䦃䦄䦅䦆䦇䦈䦉䦊䦋䦌䦍䦎䦏䦐䦑䦒䦓䦔䦕䦖䦗䦘䦙䦚䦛䦜䦝䦞䦟䦠䦡䦢䦣䦤䦥䦦䦧䦨䦩䦪䦫䦬䦭䦮䦯䦰䦱䦲䦳䦴䦵䦶䦷䦸䦹䦺䦻䦼䦽䦾䦿䧀䧁䧂䧃䧄䧅䧆䧇䧈䧉䧊䧋䧌䧍䧎䧏䧐䧑䧒䧓䧔䧕䧖䧗䧘䧙䧚䧛䧜䧝䧞䧟䧠䧡䧢䧣䧤䧥䧦䧧䧨䧩䧪䧫䧬䧭䧮䧯䧰䧱䧲䧳䧴䧵䧶䧷䧸䧹䧺䧻䧼䧽䧾䧿" >>,
       << 19072, "䪀䪁䪂䪃䪄䪅䪆䪇䪈䪉䪊䪋䪌䪍䪎䪏䪐䪑䪒䪓䪔䪕䪖䪗䪘䪙䪚䪛䪜䪝䪞䪟䪠䪡䪢䪣䪤䪥䪦䪧䪨䪩䪪䪫䪬䪭䪮䪯䪰䪱䪲䪳䪴䪵䪶䪷䪸䪹䪺䪻䪼䪽䪾䪿䫀䫁䫂䫃䫄䫅䫆䫇䫈䫉䫊䫋䫌䫍䫎䫏䫐䫑䫒䫓䫔䫕䫖䫗䫘䫙䫚䫛䫜䫝䫞䫟䫠䫡䫢䫣䫤䫥䫦䫧䫨䫩䫪䫫䫬䫭䫮䫯䫰䫱䫲䫳䫴䫵䫶䫷䫸䫹䫺䫻䫼䫽䫾䫿" >>,
       << 19328, "䮀䮁䮂䮃䮄䮅䮆䮇䮈䮉䮊䮋䮌䮍䮎䮏䮐䮑䮒䮓䮔䮕䮖䮗䮘䮙䮚䮛䮜䮝䮞䮟䮠䮡䮢䮣䮤䮥䮦䮧䮨䮩䮪䮫䮬䮭䮮䮯䮰䮱䮲䮳䮴䮵䮶䮷䮸䮹䮺䮻䮼䮽䮾䮿䯀䯁䯂䯃䯄䯅䯆䯇䯈䯉䯊䯋䯌䯍䯎䯏䯐䯑䯒䯓䯔䯕䯖䯗䯘䯙䯚䯛䯜䯝䯞䯟䯠䯡䯢䯣䯤䯥䯦䯧䯨䯩䯪䯫䯬䯭䯮䯯䯰䯱䯲䯳䯴䯵䯶䯷䯸䯹䯺䯻䯼䯽䯾䯿" >>,
       << 19584, "䲀䲁䲂䲃䲄䲅䲆䲇䲈䲉䲊䲋䲌䲍䲎䲏䲐䲑䲒䲓䲔䲕䲖䲗䲘䲙䲚䲛䲜䲝䲞䲟䲠䲡䲢䲣䲤䲥䲦䲧䲨䲩䲪䲫䲬䲭䲮䲯䲰䲱䲲䲳䲴䲵䲶䲷䲸䲹䲺䲻䲼䲽䲾䲿䳀䳁䳂䳃䳄䳅䳆䳇䳈䳉䳊䳋䳌䳍䳎䳏䳐䳑䳒䳓䳔䳕䳖䳗䳘䳙䳚䳛䳜䳝䳞䳟䳠䳡䳢䳣䳤䳥䳦䳧䳨䳩䳪䳫䳬䳭䳮䳯䳰䳱䳲䳳䳴䳵䳶䳷䳸䳹䳺䳻䳼䳽䳾䳿" >>,
       << 19840, "䶀䶁䶂䶃䶄䶅䶆䶇䶈䶉䶊䶋䶌䶍䶎䶏䶐䶑䶒䶓䶔䶕䶖䶗䶘䶙䶚䶛䶜䶝䶞䶟䶠䶡䶢䶣䶤䶥䶦䶧䶨䶩䶪䶫䶬䶭䶮䶯䶰䶱䶲䶳䶴䶵䶶䶷䶸䶹䶺䶻䶼䶽䶾䶿䷀䷁䷂䷃䷄䷅䷆䷇䷈䷉䷊䷋䷌䷍䷎䷏䷐䷑䷒䷓䷔䷕䷖䷗䷘䷙䷚䷛䷜䷝䷞䷟䷠䷡䷢䷣䷤䷥䷦䷧䷨䷩䷪䷫䷬䷭䷮䷯䷰䷱䷲䷳䷴䷵䷶䷷䷸䷹䷺䷻䷼䷽䷾䷿" >>,
       << 20096, "亀亁亂亃亄亅了亇予争亊事二亍于亏亐云互亓五井亖亗亘亙亚些亜亝亞亟亠亡亢亣交亥亦产亨亩亪享京亭亮亯亰亱亲亳亴亵亶亷亸亹人亻亼亽亾亿什仁仂仃仄仅仆仇仈仉今介仌仍从仏仐仑仒仓仔仕他仗付仙仚仛仜仝仞仟仠仡仢代令以仦仧仨仩仪仫们仭仮仯仰仱仲仳仴仵件价仸仹仺任仼份仾仿" >>,
       << 20352, "侀侁侂侃侄侅來侇侈侉侊例侌侍侎侏侐侑侒侓侔侕侖侗侘侙侚供侜依侞侟侠価侢侣侤侥侦侧侨侩侪侫侬侭侮侯侰侱侲侳侴侵侶侷侸侹侺侻侼侽侾便俀俁係促俄俅俆俇俈俉俊俋俌俍俎俏俐俑俒俓俔俕俖俗俘俙俚俛俜保俞俟俠信俢俣俤俥俦俧俨俩俪俫俬俭修俯俰俱俲俳俴俵俶俷俸俹俺俻俼俽俾俿" >>,
       << 20608, "傀傁傂傃傄傅傆傇傈傉傊傋傌傍傎傏傐傑傒傓傔傕傖傗傘備傚傛傜傝傞傟傠傡傢傣傤傥傦傧储傩傪傫催傭傮傯傰傱傲傳傴債傶傷傸傹傺傻傼傽傾傿僀僁僂僃僄僅僆僇僈僉僊僋僌働僎像僐僑僒僓僔僕僖僗僘僙僚僛僜僝僞僟僠僡僢僣僤僥僦僧僨僩僪僫僬僭僮僯僰僱僲僳僴僵僶僷僸價僺僻僼僽僾僿" >>,
       << 20864, "冀冁冂冃冄内円冇冈冉冊冋册再冎冏冐冑冒冓冔冕冖冗冘写冚军农冝冞冟冠冡冢冣冤冥冦冧冨冩冪冫冬冭冮冯冰冱冲决冴况冶冷冸冹冺冻冼冽冾冿净凁凂凃凄凅准凇凈凉凊凋凌凍凎减凐凑凒凓凔凕凖凗凘凙凚凛凜凝凞凟几凡凢凣凤凥処凧凨凩凪凫凬凭凮凯凰凱凲凳凴凵凶凷凸凹出击凼函凾凿" >>,
       << 21120, "劀劁劂劃劄劅劆劇劈劉劊劋劌劍劎劏劐劑劒劓劔劕劖劗劘劙劚力劜劝办功加务劢劣劤劥劦劧动助努劫劬劭劮劯劰励劲劳労劵劶劷劸効劺劻劼劽劾势勀勁勂勃勄勅勆勇勈勉勊勋勌勍勎勏勐勑勒勓勔動勖勗勘務勚勛勜勝勞募勠勡勢勣勤勥勦勧勨勩勪勫勬勭勮勯勰勱勲勳勴勵勶勷勸勹勺勻勼勽勾勿" >>,
       << 21376, "厀厁厂厃厄厅历厇厈厉厊压厌厍厎厏厐厑厒厓厔厕厖厗厘厙厚厛厜厝厞原厠厡厢厣厤厥厦厧厨厩厪厫厬厭厮厯厰厱厲厳厴厵厶厷厸厹厺去厼厽厾县叀叁参參叄叅叆叇又叉及友双反収叏叐发叒叓叔叕取受变叙叚叛叜叝叞叟叠叡叢口古句另叧叨叩只叫召叭叮可台叱史右叴叵叶号司叹叺叻叼叽叾叿" >>,
       << 21632, "咀咁咂咃咄咅咆咇咈咉咊咋和咍咎咏咐咑咒咓咔咕咖咗咘咙咚咛咜咝咞咟咠咡咢咣咤咥咦咧咨咩咪咫咬咭咮咯咰咱咲咳咴咵咶咷咸咹咺咻咼咽咾咿哀品哂哃哄哅哆哇哈哉哊哋哌响哎哏哐哑哒哓哔哕哖哗哘哙哚哛哜哝哞哟哠員哢哣哤哥哦哧哨哩哪哫哬哭哮哯哰哱哲哳哴哵哶哷哸哹哺哻哼哽哾哿" >>,
       << 21888, "喀喁喂喃善喅喆喇喈喉喊喋喌喍喎喏喐喑喒喓喔喕喖喗喘喙喚喛喜喝喞喟喠喡喢喣喤喥喦喧喨喩喪喫喬喭單喯喰喱喲喳喴喵営喷喸喹喺喻喼喽喾喿嗀嗁嗂嗃嗄嗅嗆嗇嗈嗉嗊嗋嗌嗍嗎嗏嗐嗑嗒嗓嗔嗕嗖嗗嗘嗙嗚嗛嗜嗝嗞嗟嗠嗡嗢嗣嗤嗥嗦嗧嗨嗩嗪嗫嗬嗭嗮嗯嗰嗱嗲嗳嗴嗵嗶嗷嗸嗹嗺嗻嗼嗽嗾嗿" >>,
       << 22144, "嚀嚁嚂嚃嚄嚅嚆嚇嚈嚉嚊嚋嚌嚍嚎嚏嚐嚑嚒嚓嚔嚕嚖嚗嚘嚙嚚嚛嚜嚝嚞嚟嚠嚡嚢嚣嚤嚥嚦嚧嚨嚩嚪嚫嚬嚭嚮嚯嚰嚱嚲嚳嚴嚵嚶嚷嚸嚹嚺嚻嚼嚽嚾嚿囀囁囂囃囄囅囆囇囈囉囊囋囌囍囎囏囐囑囒囓囔囕囖囗囘囙囚四囜囝回囟因囡团団囤囥囦囧囨囩囪囫囬园囮囯困囱囲図围囵囶囷囸囹固囻囼国图囿" >>,
       << 22400, "垀垁垂垃垄垅垆垇垈垉垊型垌垍垎垏垐垑垒垓垔垕垖垗垘垙垚垛垜垝垞垟垠垡垢垣垤垥垦垧垨垩垪垫垬垭垮垯垰垱垲垳垴垵垶垷垸垹垺垻垼垽垾垿埀埁埂埃埄埅埆埇埈埉埊埋埌埍城埏埐埑埒埓埔埕埖埗埘埙埚埛埜埝埞域埠埡埢埣埤埥埦埧埨埩埪埫埬埭埮埯埰埱埲埳埴埵埶執埸培基埻埼埽埾埿" >>,
       << 22656, "墀墁墂境墄墅墆墇墈墉墊墋墌墍墎墏墐墑墒墓墔墕墖増墘墙墚墛墜墝增墟墠墡墢墣墤墥墦墧墨墩墪墫墬墭墮墯墰墱墲墳墴墵墶墷墸墹墺墻墼墽墾墿壀壁壂壃壄壅壆壇壈壉壊壋壌壍壎壏壐壑壒壓壔壕壖壗壘壙壚壛壜壝壞壟壠壡壢壣壤壥壦壧壨壩壪士壬壭壮壯声壱売壳壴壵壶壷壸壹壺壻壼壽壾壿" >>,
       << 22912, "妀妁如妃妄妅妆妇妈妉妊妋妌妍妎妏妐妑妒妓妔妕妖妗妘妙妚妛妜妝妞妟妠妡妢妣妤妥妦妧妨妩妪妫妬妭妮妯妰妱妲妳妴妵妶妷妸妹妺妻妼妽妾妿姀姁姂姃姄姅姆姇姈姉姊始姌姍姎姏姐姑姒姓委姕姖姗姘姙姚姛姜姝姞姟姠姡姢姣姤姥姦姧姨姩姪姫姬姭姮姯姰姱姲姳姴姵姶姷姸姹姺姻姼姽姾姿" >>,
       << 23168, "媀媁媂媃媄媅媆媇媈媉媊媋媌媍媎媏媐媑媒媓媔媕媖媗媘媙媚媛媜媝媞媟媠媡媢媣媤媥媦媧媨媩媪媫媬媭媮媯媰媱媲媳媴媵媶媷媸媹媺媻媼媽媾媿嫀嫁嫂嫃嫄嫅嫆嫇嫈嫉嫊嫋嫌嫍嫎嫏嫐嫑嫒嫓嫔嫕嫖嫗嫘嫙嫚嫛嫜嫝嫞嫟嫠嫡嫢嫣嫤嫥嫦嫧嫨嫩嫪嫫嫬嫭嫮嫯嫰嫱嫲嫳嫴嫵嫶嫷嫸嫹嫺嫻嫼嫽嫾嫿" >>,
       << 23424, "宀宁宂它宄宅宆宇守安宊宋完宍宎宏宐宑宒宓宔宕宖宗官宙定宛宜宝实実宠审客宣室宥宦宧宨宩宪宫宬宭宮宯宰宱宲害宴宵家宷宸容宺宻宼宽宾宿寀寁寂寃寄寅密寇寈寉寊寋富寍寎寏寐寑寒寓寔寕寖寗寘寙寚寛寜寝寞察寠寡寢寣寤寥實寧寨審寪寫寬寭寮寯寰寱寲寳寴寵寶寷寸对寺寻导寽対寿" >>,
       << 23680, "岀岁岂岃岄岅岆岇岈岉岊岋岌岍岎岏岐岑岒岓岔岕岖岗岘岙岚岛岜岝岞岟岠岡岢岣岤岥岦岧岨岩岪岫岬岭岮岯岰岱岲岳岴岵岶岷岸岹岺岻岼岽岾岿峀峁峂峃峄峅峆峇峈峉峊峋峌峍峎峏峐峑峒峓峔峕峖峗峘峙峚峛峜峝峞峟峠峡峢峣峤峥峦峧峨峩峪峫峬峭峮峯峰峱峲峳峴峵島峷峸峹峺峻峼峽峾峿" >>,
       << 23936, "嶀嶁嶂嶃嶄嶅嶆嶇嶈嶉嶊嶋嶌嶍嶎嶏嶐嶑嶒嶓嶔嶕嶖嶗嶘嶙嶚嶛嶜嶝嶞嶟嶠嶡嶢嶣嶤嶥嶦嶧嶨嶩嶪嶫嶬嶭嶮嶯嶰嶱嶲嶳嶴嶵嶶嶷嶸嶹嶺嶻嶼嶽嶾嶿巀巁巂巃巄巅巆巇巈巉巊巋巌巍巎巏巐巑巒巓巔巕巖巗巘巙巚巛巜川州巟巠巡巢巣巤工左巧巨巩巪巫巬巭差巯巰己已巳巴巵巶巷巸巹巺巻巼巽巾巿" >>,
       << 24192, "庀庁庂広庄庅庆庇庈庉床庋庌庍庎序庐庑庒库应底庖店庘庙庚庛府庝庞废庠庡庢庣庤庥度座庨庩庪庫庬庭庮庯庰庱庲庳庴庵庶康庸庹庺庻庼庽庾庿廀廁廂廃廄廅廆廇廈廉廊廋廌廍廎廏廐廑廒廓廔廕廖廗廘廙廚廛廜廝廞廟廠廡廢廣廤廥廦廧廨廩廪廫廬廭廮廯廰廱廲廳廴廵延廷廸廹建廻廼廽廾廿" >>,
       << 24448, "往征徂徃径待徆徇很徉徊律後徍徎徏徐徑徒従徔徕徖得徘徙徚徛徜徝從徟徠御徢徣徤徥徦徧徨復循徫徬徭微徯徰徱徲徳徴徵徶德徸徹徺徻徼徽徾徿忀忁忂心忄必忆忇忈忉忊忋忌忍忎忏忐忑忒忓忔忕忖志忘忙忚忛応忝忞忟忠忡忢忣忤忥忦忧忨忩忪快忬忭忮忯忰忱忲忳忴念忶忷忸忹忺忻忼忽忾忿" >>,
       << 24704, "悀悁悂悃悄悅悆悇悈悉悊悋悌悍悎悏悐悑悒悓悔悕悖悗悘悙悚悛悜悝悞悟悠悡悢患悤悥悦悧您悩悪悫悬悭悮悯悰悱悲悳悴悵悶悷悸悹悺悻悼悽悾悿惀惁惂惃惄情惆惇惈惉惊惋惌惍惎惏惐惑惒惓惔惕惖惗惘惙惚惛惜惝惞惟惠惡惢惣惤惥惦惧惨惩惪惫惬惭惮惯惰惱惲想惴惵惶惷惸惹惺惻惼惽惾惿" >>,
       << 24960, "憀憁憂憃憄憅憆憇憈憉憊憋憌憍憎憏憐憑憒憓憔憕憖憗憘憙憚憛憜憝憞憟憠憡憢憣憤憥憦憧憨憩憪憫憬憭憮憯憰憱憲憳憴憵憶憷憸憹憺憻憼憽憾憿懀懁懂懃懄懅懆懇懈應懊懋懌懍懎懏懐懑懒懓懔懕懖懗懘懙懚懛懜懝懞懟懠懡懢懣懤懥懦懧懨懩懪懫懬懭懮懯懰懱懲懳懴懵懶懷懸懹懺懻懼懽懾懿" >>,
       << 25216, "技抁抂抃抄抅抆抇抈抉把抋抌抍抎抏抐抑抒抓抔投抖抗折抙抚抛抜抝択抟抠抡抢抣护报抦抧抨抩抪披抬抭抮抯抰抱抲抳抴抵抶抷抸抹抺抻押抽抾抿拀拁拂拃拄担拆拇拈拉拊拋拌拍拎拏拐拑拒拓拔拕拖拗拘拙拚招拜拝拞拟拠拡拢拣拤拥拦拧拨择拪拫括拭拮拯拰拱拲拳拴拵拶拷拸拹拺拻拼拽拾拿" >>,
       << 25472, "掀掁掂掃掄掅掆掇授掉掊掋掌掍掎掏掐掑排掓掔掕掖掗掘掙掚掛掜掝掞掟掠採探掣掤接掦控推掩措掫掬掭掮掯掰掱掲掳掴掵掶掷掸掹掺掻掼掽掾掿揀揁揂揃揄揅揆揇揈揉揊揋揌揍揎描提揑插揓揔揕揖揗揘揙揚換揜揝揞揟揠握揢揣揤揥揦揧揨揩揪揫揬揭揮揯揰揱揲揳援揵揶揷揸揹揺揻揼揽揾揿" >>,
       << 25728, "撀撁撂撃撄撅撆撇撈撉撊撋撌撍撎撏撐撑撒撓撔撕撖撗撘撙撚撛撜撝撞撟撠撡撢撣撤撥撦撧撨撩撪撫撬播撮撯撰撱撲撳撴撵撶撷撸撹撺撻撼撽撾撿擀擁擂擃擄擅擆擇擈擉擊擋擌操擎擏擐擑擒擓擔擕擖擗擘擙據擛擜擝擞擟擠擡擢擣擤擥擦擧擨擩擪擫擬擭擮擯擰擱擲擳擴擵擶擷擸擹擺擻擼擽擾擿" >>,
       << 25984, "斀斁斂斃斄斅斆文斈斉斊斋斌斍斎斏斐斑斒斓斔斕斖斗斘料斚斛斜斝斞斟斠斡斢斣斤斥斦斧斨斩斪斫斬断斮斯新斱斲斳斴斵斶斷斸方斺斻於施斾斿旀旁旂旃旄旅旆旇旈旉旊旋旌旍旎族旐旑旒旓旔旕旖旗旘旙旚旛旜旝旞旟无旡既旣旤日旦旧旨早旪旫旬旭旮旯旰旱旲旳旴旵时旷旸旹旺旻旼旽旾旿" >>,
       << 26240, "暀暁暂暃暄暅暆暇暈暉暊暋暌暍暎暏暐暑暒暓暔暕暖暗暘暙暚暛暜暝暞暟暠暡暢暣暤暥暦暧暨暩暪暫暬暭暮暯暰暱暲暳暴暵暶暷暸暹暺暻暼暽暾暿曀曁曂曃曄曅曆曇曈曉曊曋曌曍曎曏曐曑曒曓曔曕曖曗曘曙曚曛曜曝曞曟曠曡曢曣曤曥曦曧曨曩曪曫曬曭曮曯曰曱曲曳更曵曶曷書曹曺曻曼曽曾替" >>,
       << 26496, "枀极枂枃构枅枆枇枈枉枊枋枌枍枎枏析枑枒枓枔枕枖林枘枙枚枛果枝枞枟枠枡枢枣枤枥枦枧枨枩枪枫枬枭枮枯枰枱枲枳枴枵架枷枸枹枺枻枼枽枾枿柀柁柂柃柄柅柆柇柈柉柊柋柌柍柎柏某柑柒染柔柕柖柗柘柙柚柛柜柝柞柟柠柡柢柣柤查柦柧柨柩柪柫柬柭柮柯柰柱柲柳柴柵柶柷柸柹柺査柼柽柾柿" >>,
       << 26752, "梀梁梂梃梄梅梆梇梈梉梊梋梌梍梎梏梐梑梒梓梔梕梖梗梘梙梚梛梜條梞梟梠梡梢梣梤梥梦梧梨梩梪梫梬梭梮梯械梱梲梳梴梵梶梷梸梹梺梻梼梽梾梿检棁棂棃棄棅棆棇棈棉棊棋棌棍棎棏棐棑棒棓棔棕棖棗棘棙棚棛棜棝棞棟棠棡棢棣棤棥棦棧棨棩棪棫棬棭森棯棰棱棲棳棴棵棶棷棸棹棺棻棼棽棾棿" >>,
       << 27008, "榀榁概榃榄榅榆榇榈榉榊榋榌榍榎榏榐榑榒榓榔榕榖榗榘榙榚榛榜榝榞榟榠榡榢榣榤榥榦榧榨榩榪榫榬榭榮榯榰榱榲榳榴榵榶榷榸榹榺榻榼榽榾榿槀槁槂槃槄槅槆槇槈槉槊構槌槍槎槏槐槑槒槓槔槕槖槗様槙槚槛槜槝槞槟槠槡槢槣槤槥槦槧槨槩槪槫槬槭槮槯槰槱槲槳槴槵槶槷槸槹槺槻槼槽槾槿" >>,
       << 27264, "檀檁檂檃檄檅檆檇檈檉檊檋檌檍檎檏檐檑檒檓檔檕檖檗檘檙檚檛檜檝檞檟檠檡檢檣檤檥檦檧檨檩檪檫檬檭檮檯檰檱檲檳檴檵檶檷檸檹檺檻檼檽檾檿櫀櫁櫂櫃櫄櫅櫆櫇櫈櫉櫊櫋櫌櫍櫎櫏櫐櫑櫒櫓櫔櫕櫖櫗櫘櫙櫚櫛櫜櫝櫞櫟櫠櫡櫢櫣櫤櫥櫦櫧櫨櫩櫪櫫櫬櫭櫮櫯櫰櫱櫲櫳櫴櫵櫶櫷櫸櫹櫺櫻櫼櫽櫾櫿" >>,
       << 27520, "殀殁殂殃殄殅殆殇殈殉殊残殌殍殎殏殐殑殒殓殔殕殖殗殘殙殚殛殜殝殞殟殠殡殢殣殤殥殦殧殨殩殪殫殬殭殮殯殰殱殲殳殴段殶殷殸殹殺殻殼殽殾殿毀毁毂毃毄毅毆毇毈毉毊毋毌母毎每毐毑毒毓比毕毖毗毘毙毚毛毜毝毞毟毠毡毢毣毤毥毦毧毨毩毪毫毬毭毮毯毰毱毲毳毴毵毶毷毸毹毺毻毼毽毾毿" >>,
       << 27776, "沀沁沂沃沄沅沆沇沈沉沊沋沌沍沎沏沐沑沒沓沔沕沖沗沘沙沚沛沜沝沞沟沠没沢沣沤沥沦沧沨沩沪沫沬沭沮沯沰沱沲河沴沵沶沷沸油沺治沼沽沾沿泀況泂泃泄泅泆泇泈泉泊泋泌泍泎泏泐泑泒泓泔法泖泗泘泙泚泛泜泝泞泟泠泡波泣泤泥泦泧注泩泪泫泬泭泮泯泰泱泲泳泴泵泶泷泸泹泺泻泼泽泾泿" >>,
       << 28032, "涀涁涂涃涄涅涆涇消涉涊涋涌涍涎涏涐涑涒涓涔涕涖涗涘涙涚涛涜涝涞涟涠涡涢涣涤涥润涧涨涩涪涫涬涭涮涯涰涱液涳涴涵涶涷涸涹涺涻涼涽涾涿淀淁淂淃淄淅淆淇淈淉淊淋淌淍淎淏淐淑淒淓淔淕淖淗淘淙淚淛淜淝淞淟淠淡淢淣淤淥淦淧淨淩淪淫淬淭淮淯淰深淲淳淴淵淶混淸淹淺添淼淽淾淿" >>,
       << 28288, "満溁溂溃溄溅溆溇溈溉溊溋溌溍溎溏源溑溒溓溔溕準溗溘溙溚溛溜溝溞溟溠溡溢溣溤溥溦溧溨溩溪溫溬溭溮溯溰溱溲溳溴溵溶溷溸溹溺溻溼溽溾溿滀滁滂滃滄滅滆滇滈滉滊滋滌滍滎滏滐滑滒滓滔滕滖滗滘滙滚滛滜滝滞滟滠满滢滣滤滥滦滧滨滩滪滫滬滭滮滯滰滱滲滳滴滵滶滷滸滹滺滻滼滽滾滿" >>,
       << 28544, "澀澁澂澃澄澅澆澇澈澉澊澋澌澍澎澏澐澑澒澓澔澕澖澗澘澙澚澛澜澝澞澟澠澡澢澣澤澥澦澧澨澩澪澫澬澭澮澯澰澱澲澳澴澵澶澷澸澹澺澻澼澽澾澿激濁濂濃濄濅濆濇濈濉濊濋濌濍濎濏濐濑濒濓濔濕濖濗濘濙濚濛濜濝濞濟濠濡濢濣濤濥濦濧濨濩濪濫濬濭濮濯濰濱濲濳濴濵濶濷濸濹濺濻濼濽濾濿" >>,
       << 28800, "炀炁炂炃炄炅炆炇炈炉炊炋炌炍炎炏炐炑炒炓炔炕炖炗炘炙炚炛炜炝炞炟炠炡炢炣炤炥炦炧炨炩炪炫炬炭炮炯炰炱炲炳炴炵炶炷炸点為炻炼炽炾炿烀烁烂烃烄烅烆烇烈烉烊烋烌烍烎烏烐烑烒烓烔烕烖烗烘烙烚烛烜烝烞烟烠烡烢烣烤烥烦烧烨烩烪烫烬热烮烯烰烱烲烳烴烵烶烷烸烹烺烻烼烽烾烿" >>,
       << 29056, "熀熁熂熃熄熅熆熇熈熉熊熋熌熍熎熏熐熑熒熓熔熕熖熗熘熙熚熛熜熝熞熟熠熡熢熣熤熥熦熧熨熩熪熫熬熭熮熯熰熱熲熳熴熵熶熷熸熹熺熻熼熽熾熿燀燁燂燃燄燅燆燇燈燉燊燋燌燍燎燏燐燑燒燓燔燕燖燗燘燙燚燛燜燝燞營燠燡燢燣燤燥燦燧燨燩燪燫燬燭燮燯燰燱燲燳燴燵燶燷燸燹燺燻燼燽燾燿" >>,
       << 29312, "犀犁犂犃犄犅犆犇犈犉犊犋犌犍犎犏犐犑犒犓犔犕犖犗犘犙犚犛犜犝犞犟犠犡犢犣犤犥犦犧犨犩犪犫犬犭犮犯犰犱犲犳犴犵状犷犸犹犺犻犼犽犾犿狀狁狂狃狄狅狆狇狈狉狊狋狌狍狎狏狐狑狒狓狔狕狖狗狘狙狚狛狜狝狞狟狠狡狢狣狤狥狦狧狨狩狪狫独狭狮狯狰狱狲狳狴狵狶狷狸狹狺狻狼狽狾狿" >>,
       << 29568, "玀玁玂玃玄玅玆率玈玉玊王玌玍玎玏玐玑玒玓玔玕玖玗玘玙玚玛玜玝玞玟玠玡玢玣玤玥玦玧玨玩玪玫玬玭玮环现玱玲玳玴玵玶玷玸玹玺玻玼玽玾玿珀珁珂珃珄珅珆珇珈珉珊珋珌珍珎珏珐珑珒珓珔珕珖珗珘珙珚珛珜珝珞珟珠珡珢珣珤珥珦珧珨珩珪珫珬班珮珯珰珱珲珳珴珵珶珷珸珹珺珻珼珽現珿" >>,
       << 29824, "璀璁璂璃璄璅璆璇璈璉璊璋璌璍璎璏璐璑璒璓璔璕璖璗璘璙璚璛璜璝璞璟璠璡璢璣璤璥璦璧璨璩璪璫璬璭璮璯環璱璲璳璴璵璶璷璸璹璺璻璼璽璾璿瓀瓁瓂瓃瓄瓅瓆瓇瓈瓉瓊瓋瓌瓍瓎瓏瓐瓑瓒瓓瓔瓕瓖瓗瓘瓙瓚瓛瓜瓝瓞瓟瓠瓡瓢瓣瓤瓥瓦瓧瓨瓩瓪瓫瓬瓭瓮瓯瓰瓱瓲瓳瓴瓵瓶瓷瓸瓹瓺瓻瓼瓽瓾瓿" >>,
       << 30080, "疀疁疂疃疄疅疆疇疈疉疊疋疌疍疎疏疐疑疒疓疔疕疖疗疘疙疚疛疜疝疞疟疠疡疢疣疤疥疦疧疨疩疪疫疬疭疮疯疰疱疲疳疴疵疶疷疸疹疺疻疼疽疾疿痀痁痂痃痄病痆症痈痉痊痋痌痍痎痏痐痑痒痓痔痕痖痗痘痙痚痛痜痝痞痟痠痡痢痣痤痥痦痧痨痩痪痫痬痭痮痯痰痱痲痳痴痵痶痷痸痹痺痻痼痽痾痿" >>,
       << 30336, "皀皁皂皃的皅皆皇皈皉皊皋皌皍皎皏皐皑皒皓皔皕皖皗皘皙皚皛皜皝皞皟皠皡皢皣皤皥皦皧皨皩皪皫皬皭皮皯皰皱皲皳皴皵皶皷皸皹皺皻皼皽皾皿盀盁盂盃盄盅盆盇盈盉益盋盌盍盎盏盐监盒盓盔盕盖盗盘盙盚盛盜盝盞盟盠盡盢監盤盥盦盧盨盩盪盫盬盭目盯盰盱盲盳直盵盶盷相盹盺盻盼盽盾盿" >>,
       << 30592, "瞀瞁瞂瞃瞄瞅瞆瞇瞈瞉瞊瞋瞌瞍瞎瞏瞐瞑瞒瞓瞔瞕瞖瞗瞘瞙瞚瞛瞜瞝瞞瞟瞠瞡瞢瞣瞤瞥瞦瞧瞨瞩瞪瞫瞬瞭瞮瞯瞰瞱瞲瞳瞴瞵瞶瞷瞸瞹瞺瞻瞼瞽瞾瞿矀矁矂矃矄矅矆矇矈矉矊矋矌矍矎矏矐矑矒矓矔矕矖矗矘矙矚矛矜矝矞矟矠矡矢矣矤知矦矧矨矩矪矫矬短矮矯矰矱矲石矴矵矶矷矸矹矺矻矼矽矾矿" >>,
       << 30848, "碀碁碂碃碄碅碆碇碈碉碊碋碌碍碎碏碐碑碒碓碔碕碖碗碘碙碚碛碜碝碞碟碠碡碢碣碤碥碦碧碨碩碪碫碬碭碮碯碰碱碲碳碴碵碶碷碸碹確碻碼碽碾碿磀磁磂磃磄磅磆磇磈磉磊磋磌磍磎磏磐磑磒磓磔磕磖磗磘磙磚磛磜磝磞磟磠磡磢磣磤磥磦磧磨磩磪磫磬磭磮磯磰磱磲磳磴磵磶磷磸磹磺磻磼磽磾磿" >>,
       << 31104, "禀禁禂禃禄禅禆禇禈禉禊禋禌禍禎福禐禑禒禓禔禕禖禗禘禙禚禛禜禝禞禟禠禡禢禣禤禥禦禧禨禩禪禫禬禭禮禯禰禱禲禳禴禵禶禷禸禹禺离禼禽禾禿秀私秂秃秄秅秆秇秈秉秊秋秌种秎秏秐科秒秓秔秕秖秗秘秙秚秛秜秝秞租秠秡秢秣秤秥秦秧秨秩秪秫秬秭秮积称秱秲秳秴秵秶秷秸秹秺移秼秽秾秿" >>,
       << 31360, "窀突窂窃窄窅窆窇窈窉窊窋窌窍窎窏窐窑窒窓窔窕窖窗窘窙窚窛窜窝窞窟窠窡窢窣窤窥窦窧窨窩窪窫窬窭窮窯窰窱窲窳窴窵窶窷窸窹窺窻窼窽窾窿竀竁竂竃竄竅竆竇竈竉竊立竌竍竎竏竐竑竒竓竔竕竖竗竘站竚竛竜竝竞竟章竡竢竣竤童竦竧竨竩竪竫竬竭竮端竰竱竲竳竴竵競竷竸竹竺竻竼竽竾竿" >>,
       << 31616, "简箁箂箃箄箅箆箇箈箉箊箋箌箍箎箏箐箑箒箓箔箕箖算箘箙箚箛箜箝箞箟箠管箢箣箤箥箦箧箨箩箪箫箬箭箮箯箰箱箲箳箴箵箶箷箸箹箺箻箼箽箾箿節篁篂篃範篅篆篇篈築篊篋篌篍篎篏篐篑篒篓篔篕篖篗篘篙篚篛篜篝篞篟篠篡篢篣篤篥篦篧篨篩篪篫篬篭篮篯篰篱篲篳篴篵篶篷篸篹篺篻篼篽篾篿" >>,
       << 31872, "粀粁粂粃粄粅粆粇粈粉粊粋粌粍粎粏粐粑粒粓粔粕粖粗粘粙粚粛粜粝粞粟粠粡粢粣粤粥粦粧粨粩粪粫粬粭粮粯粰粱粲粳粴粵粶粷粸粹粺粻粼粽精粿糀糁糂糃糄糅糆糇糈糉糊糋糌糍糎糏糐糑糒糓糔糕糖糗糘糙糚糛糜糝糞糟糠糡糢糣糤糥糦糧糨糩糪糫糬糭糮糯糰糱糲糳糴糵糶糷糸糹糺系糼糽糾糿" >>,
       << 32128, "綀綁綂綃綄綅綆綇綈綉綊綋綌綍綎綏綐綑綒經綔綕綖綗綘継続綛綜綝綞綟綠綡綢綣綤綥綦綧綨綩綪綫綬維綮綯綰綱網綳綴綵綶綷綸綹綺綻綼綽綾綿緀緁緂緃緄緅緆緇緈緉緊緋緌緍緎総緐緑緒緓緔緕緖緗緘緙線緛緜緝緞緟締緡緢緣緤緥緦緧編緩緪緫緬緭緮緯緰緱緲緳練緵緶緷緸緹緺緻緼緽緾緿" >>,
       << 32384, "纀纁纂纃纄纅纆纇纈纉纊纋續纍纎纏纐纑纒纓纔纕纖纗纘纙纚纛纜纝纞纟纠纡红纣纤纥约级纨纩纪纫纬纭纮纯纰纱纲纳纴纵纶纷纸纹纺纻纼纽纾线绀绁绂练组绅细织终绉绊绋绌绍绎经绐绑绒结绔绕绖绗绘给绚绛络绝绞统绠绡绢绣绤绥绦继绨绩绪绫绬续绮绯绰绱绲绳维绵绶绷绸绹绺绻综绽绾绿" >>,
       << 32640, "羀羁羂羃羄羅羆羇羈羉羊羋羌羍美羏羐羑羒羓羔羕羖羗羘羙羚羛羜羝羞羟羠羡羢羣群羥羦羧羨義羪羫羬羭羮羯羰羱羲羳羴羵羶羷羸羹羺羻羼羽羾羿翀翁翂翃翄翅翆翇翈翉翊翋翌翍翎翏翐翑習翓翔翕翖翗翘翙翚翛翜翝翞翟翠翡翢翣翤翥翦翧翨翩翪翫翬翭翮翯翰翱翲翳翴翵翶翷翸翹翺翻翼翽翾翿" >>,
       << 32896, "肀肁肂肃肄肅肆肇肈肉肊肋肌肍肎肏肐肑肒肓肔肕肖肗肘肙肚肛肜肝肞肟肠股肢肣肤肥肦肧肨肩肪肫肬肭肮肯肰肱育肳肴肵肶肷肸肹肺肻肼肽肾肿胀胁胂胃胄胅胆胇胈胉胊胋背胍胎胏胐胑胒胓胔胕胖胗胘胙胚胛胜胝胞胟胠胡胢胣胤胥胦胧胨胩胪胫胬胭胮胯胰胱胲胳胴胵胶胷胸胹胺胻胼能胾胿" >>,
       << 33152, "膀膁膂膃膄膅膆膇膈膉膊膋膌膍膎膏膐膑膒膓膔膕膖膗膘膙膚膛膜膝膞膟膠膡膢膣膤膥膦膧膨膩膪膫膬膭膮膯膰膱膲膳膴膵膶膷膸膹膺膻膼膽膾膿臀臁臂臃臄臅臆臇臈臉臊臋臌臍臎臏臐臑臒臓臔臕臖臗臘臙臚臛臜臝臞臟臠臡臢臣臤臥臦臧臨臩自臫臬臭臮臯臰臱臲至致臵臶臷臸臹臺臻臼臽臾臿" >>,
       << 33408, "芀芁节芃芄芅芆芇芈芉芊芋芌芍芎芏芐芑芒芓芔芕芖芗芘芙芚芛芜芝芞芟芠芡芢芣芤芥芦芧芨芩芪芫芬芭芮芯芰花芲芳芴芵芶芷芸芹芺芻芼芽芾芿苀苁苂苃苄苅苆苇苈苉苊苋苌苍苎苏苐苑苒苓苔苕苖苗苘苙苚苛苜苝苞苟苠苡苢苣苤若苦苧苨苩苪苫苬苭苮苯苰英苲苳苴苵苶苷苸苹苺苻苼苽苾苿" >>,
       << 33664, "莀莁莂莃莄莅莆莇莈莉莊莋莌莍莎莏莐莑莒莓莔莕莖莗莘莙莚莛莜莝莞莟莠莡莢莣莤莥莦莧莨莩莪莫莬莭莮莯莰莱莲莳莴莵莶获莸莹莺莻莼莽莾莿菀菁菂菃菄菅菆菇菈菉菊菋菌菍菎菏菐菑菒菓菔菕菖菗菘菙菚菛菜菝菞菟菠菡菢菣菤菥菦菧菨菩菪菫菬菭菮華菰菱菲菳菴菵菶菷菸菹菺菻菼菽菾菿" >>,
       << 33920, "蒀蒁蒂蒃蒄蒅蒆蒇蒈蒉蒊蒋蒌蒍蒎蒏蒐蒑蒒蒓蒔蒕蒖蒗蒘蒙蒚蒛蒜蒝蒞蒟蒠蒡蒢蒣蒤蒥蒦蒧蒨蒩蒪蒫蒬蒭蒮蒯蒰蒱蒲蒳蒴蒵蒶蒷蒸蒹蒺蒻蒼蒽蒾蒿蓀蓁蓂蓃蓄蓅蓆蓇蓈蓉蓊蓋蓌蓍蓎蓏蓐蓑蓒蓓蓔蓕蓖蓗蓘蓙蓚蓛蓜蓝蓞蓟蓠蓡蓢蓣蓤蓥蓦蓧蓨蓩蓪蓫蓬蓭蓮蓯蓰蓱蓲蓳蓴蓵蓶蓷蓸蓹蓺蓻蓼蓽蓾蓿" >>,
       << 34176, "薀薁薂薃薄薅薆薇薈薉薊薋薌薍薎薏薐薑薒薓薔薕薖薗薘薙薚薛薜薝薞薟薠薡薢薣薤薥薦薧薨薩薪薫薬薭薮薯薰薱薲薳薴薵薶薷薸薹薺薻薼薽薾薿藀藁藂藃藄藅藆藇藈藉藊藋藌藍藎藏藐藑藒藓藔藕藖藗藘藙藚藛藜藝藞藟藠藡藢藣藤藥藦藧藨藩藪藫藬藭藮藯藰藱藲藳藴藵藶藷藸藹藺藻藼藽藾藿" >>,
       << 34432, "蚀蚁蚂蚃蚄蚅蚆蚇蚈蚉蚊蚋蚌蚍蚎蚏蚐蚑蚒蚓蚔蚕蚖蚗蚘蚙蚚蚛蚜蚝蚞蚟蚠蚡蚢蚣蚤蚥蚦蚧蚨蚩蚪蚫蚬蚭蚮蚯蚰蚱蚲蚳蚴蚵蚶蚷蚸蚹蚺蚻蚼蚽蚾蚿蛀蛁蛂蛃蛄蛅蛆蛇蛈蛉蛊蛋蛌蛍蛎蛏蛐蛑蛒蛓蛔蛕蛖蛗蛘蛙蛚蛛蛜蛝蛞蛟蛠蛡蛢蛣蛤蛥蛦蛧蛨蛩蛪蛫蛬蛭蛮蛯蛰蛱蛲蛳蛴蛵蛶蛷蛸蛹蛺蛻蛼蛽蛾蛿" >>,
       << 34688, "螀螁螂螃螄螅螆螇螈螉螊螋螌融螎螏螐螑螒螓螔螕螖螗螘螙螚螛螜螝螞螟螠螡螢螣螤螥螦螧螨螩螪螫螬螭螮螯螰螱螲螳螴螵螶螷螸螹螺螻螼螽螾螿蟀蟁蟂蟃蟄蟅蟆蟇蟈蟉蟊蟋蟌蟍蟎蟏蟐蟑蟒蟓蟔蟕蟖蟗蟘蟙蟚蟛蟜蟝蟞蟟蟠蟡蟢蟣蟤蟥蟦蟧蟨蟩蟪蟫蟬蟭蟮蟯蟰蟱蟲蟳蟴蟵蟶蟷蟸蟹蟺蟻蟼蟽蟾蟿" >>,
       << 34944, "袀袁袂袃袄袅袆袇袈袉袊袋袌袍袎袏袐袑袒袓袔袕袖袗袘袙袚袛袜袝袞袟袠袡袢袣袤袥袦袧袨袩袪被袬袭袮袯袰袱袲袳袴袵袶袷袸袹袺袻袼袽袾袿裀裁裂裃裄装裆裇裈裉裊裋裌裍裎裏裐裑裒裓裔裕裖裗裘裙裚裛補裝裞裟裠裡裢裣裤裥裦裧裨裩裪裫裬裭裮裯裰裱裲裳裴裵裶裷裸裹裺裻裼製裾裿" >>,
       << 35200, "覀要覂覃覄覅覆覇覈覉覊見覌覍覎規覐覑覒覓覔覕視覗覘覙覚覛覜覝覞覟覠覡覢覣覤覥覦覧覨覩親覫覬覭覮覯覰覱覲観覴覵覶覷覸覹覺覻覼覽覾覿觀见观觃规觅视觇览觉觊觋觌觍觎觏觐觑角觓觔觕觖觗觘觙觚觛觜觝觞觟觠觡觢解觤觥触觧觨觩觪觫觬觭觮觯觰觱觲觳觴觵觶觷觸觹觺觻觼觽觾觿" >>,
       << 35456, "誀誁誂誃誄誅誆誇誈誉誊誋誌認誎誏誐誑誒誓誔誕誖誗誘誙誚誛誜誝語誟誠誡誢誣誤誥誦誧誨誩說誫説読誮誯誰誱課誳誴誵誶誷誸誹誺誻誼誽誾調諀諁諂諃諄諅諆談諈諉諊請諌諍諎諏諐諑諒諓諔諕論諗諘諙諚諛諜諝諞諟諠諡諢諣諤諥諦諧諨諩諪諫諬諭諮諯諰諱諲諳諴諵諶諷諸諹諺諻諼諽諾諿" >>,
       << 35712, "讀讁讂讃讄讅讆讇讈讉變讋讌讍讎讏讐讑讒讓讔讕讖讗讘讙讚讛讜讝讞讟讠计订讣认讥讦讧讨让讪讫讬训议讯记讱讲讳讴讵讶讷许讹论讻讼讽设访诀证诂诃评诅识诇诈诉诊诋诌词诎诏诐译诒诓诔试诖诗诘诙诚诛诜话诞诟诠诡询诣诤该详诧诨诩诪诫诬语诮误诰诱诲诳说诵诶请诸诹诺读诼诽课诿" >>,
       << 35968, "貀貁貂貃貄貅貆貇貈貉貊貋貌貍貎貏貐貑貒貓貔貕貖貗貘貙貚貛貜貝貞貟負財貢貣貤貥貦貧貨販貪貫責貭貮貯貰貱貲貳貴貵貶買貸貹貺費貼貽貾貿賀賁賂賃賄賅賆資賈賉賊賋賌賍賎賏賐賑賒賓賔賕賖賗賘賙賚賛賜賝賞賟賠賡賢賣賤賥賦賧賨賩質賫賬賭賮賯賰賱賲賳賴賵賶賷賸賹賺賻購賽賾賿" >>,
       << 36224, "趀趁趂趃趄超趆趇趈趉越趋趌趍趎趏趐趑趒趓趔趕趖趗趘趙趚趛趜趝趞趟趠趡趢趣趤趥趦趧趨趩趪趫趬趭趮趯趰趱趲足趴趵趶趷趸趹趺趻趼趽趾趿跀跁跂跃跄跅跆跇跈跉跊跋跌跍跎跏跐跑跒跓跔跕跖跗跘跙跚跛跜距跞跟跠跡跢跣跤跥跦跧跨跩跪跫跬跭跮路跰跱跲跳跴践跶跷跸跹跺跻跼跽跾跿" >>,
       << 36480, "躀躁躂躃躄躅躆躇躈躉躊躋躌躍躎躏躐躑躒躓躔躕躖躗躘躙躚躛躜躝躞躟躠躡躢躣躤躥躦躧躨躩躪身躬躭躮躯躰躱躲躳躴躵躶躷躸躹躺躻躼躽躾躿軀軁軂軃軄軅軆軇軈軉車軋軌軍軎軏軐軑軒軓軔軕軖軗軘軙軚軛軜軝軞軟軠軡転軣軤軥軦軧軨軩軪軫軬軭軮軯軰軱軲軳軴軵軶軷軸軹軺軻軼軽軾軿" >>,
       << 36736, "辀辁辂较辄辅辆辇辈辉辊辋辌辍辎辏辐辑辒输辔辕辖辗辘辙辚辛辜辝辞辟辠辡辢辣辤辥辦辧辨辩辪辫辬辭辮辯辰辱農辳辴辵辶辷辸边辺辻込辽达辿迀迁迂迃迄迅迆过迈迉迊迋迌迍迎迏运近迒迓返迕迖迗还这迚进远违连迟迠迡迢迣迤迥迦迧迨迩迪迫迬迭迮迯述迱迲迳迴迵迶迷迸迹迺迻迼追迾迿" >>,
       << 36992, "邀邁邂邃還邅邆邇邈邉邊邋邌邍邎邏邐邑邒邓邔邕邖邗邘邙邚邛邜邝邞邟邠邡邢那邤邥邦邧邨邩邪邫邬邭邮邯邰邱邲邳邴邵邶邷邸邹邺邻邼邽邾邿郀郁郂郃郄郅郆郇郈郉郊郋郌郍郎郏郐郑郒郓郔郕郖郗郘郙郚郛郜郝郞郟郠郡郢郣郤郥郦郧部郩郪郫郬郭郮郯郰郱郲郳郴郵郶郷郸郹郺郻郼都郾郿" >>,
       << 37248, "醀醁醂醃醄醅醆醇醈醉醊醋醌醍醎醏醐醑醒醓醔醕醖醗醘醙醚醛醜醝醞醟醠醡醢醣醤醥醦醧醨醩醪醫醬醭醮醯醰醱醲醳醴醵醶醷醸醹醺醻醼醽醾醿釀釁釂釃釄釅釆采釈釉释釋里重野量釐金釒釓釔釕釖釗釘釙釚釛釜針釞釟釠釡釢釣釤釥釦釧釨釩釪釫釬釭釮釯釰釱釲釳釴釵釶釷釸釹釺釻釼釽釾釿" >>,
       << 37504, "銀銁銂銃銄銅銆銇銈銉銊銋銌銍銎銏銐銑銒銓銔銕銖銗銘銙銚銛銜銝銞銟銠銡銢銣銤銥銦銧銨銩銪銫銬銭銮銯銰銱銲銳銴銵銶銷銸銹銺銻銼銽銾銿鋀鋁鋂鋃鋄鋅鋆鋇鋈鋉鋊鋋鋌鋍鋎鋏鋐鋑鋒鋓鋔鋕鋖鋗鋘鋙鋚鋛鋜鋝鋞鋟鋠鋡鋢鋣鋤鋥鋦鋧鋨鋩鋪鋫鋬鋭鋮鋯鋰鋱鋲鋳鋴鋵鋶鋷鋸鋹鋺鋻鋼鋽鋾鋿" >>,
       << 37760, "鎀鎁鎂鎃鎄鎅鎆鎇鎈鎉鎊鎋鎌鎍鎎鎏鎐鎑鎒鎓鎔鎕鎖鎗鎘鎙鎚鎛鎜鎝鎞鎟鎠鎡鎢鎣鎤鎥鎦鎧鎨鎩鎪鎫鎬鎭鎮鎯鎰鎱鎲鎳鎴鎵鎶鎷鎸鎹鎺鎻鎼鎽鎾鎿鏀鏁鏂鏃鏄鏅鏆鏇鏈鏉鏊鏋鏌鏍鏎鏏鏐鏑鏒鏓鏔鏕鏖鏗鏘鏙鏚鏛鏜鏝鏞鏟鏠鏡鏢鏣鏤鏥鏦鏧鏨鏩鏪鏫鏬鏭鏮鏯鏰鏱鏲鏳鏴鏵鏶鏷鏸鏹鏺鏻鏼鏽鏾鏿" >>,
       << 38016, "钀钁钂钃钄钅钆钇针钉钊钋钌钍钎钏钐钑钒钓钔钕钖钗钘钙钚钛钜钝钞钟钠钡钢钣钤钥钦钧钨钩钪钫钬钭钮钯钰钱钲钳钴钵钶钷钸钹钺钻钼钽钾钿铀铁铂铃铄铅铆铇铈铉铊铋铌铍铎铏铐铑铒铓铔铕铖铗铘铙铚铛铜铝铞铟铠铡铢铣铤铥铦铧铨铩铪铫铬铭铮铯铰铱铲铳铴铵银铷铸铹铺铻铼铽链铿" >>,
       << 38272, "門閁閂閃閄閅閆閇閈閉閊開閌閍閎閏閐閑閒間閔閕閖閗閘閙閚閛閜閝閞閟閠閡関閣閤閥閦閧閨閩閪閫閬閭閮閯閰閱閲閳閴閵閶閷閸閹閺閻閼閽閾閿闀闁闂闃闄闅闆闇闈闉闊闋闌闍闎闏闐闑闒闓闔闕闖闗闘闙闚闛關闝闞闟闠闡闢闣闤闥闦闧门闩闪闫闬闭问闯闰闱闲闳间闵闶闷闸闹闺闻闼闽闾闿" >>,
       << 38528, "隀隁隂隃隄隅隆隇隈隉隊隋隌隍階随隐隑隒隓隔隕隖隗隘隙隚際障隝隞隟隠隡隢隣隤隥隦隧隨隩險隫隬隭隮隯隰隱隲隳隴隵隶隷隸隹隺隻隼隽难隿雀雁雂雃雄雅集雇雈雉雊雋雌雍雎雏雐雑雒雓雔雕雖雗雘雙雚雛雜雝雞雟雠雡離難雤雥雦雧雨雩雪雫雬雭雮雯雰雱雲雳雴雵零雷雸雹雺電雼雽雾雿" >>,
       << 38784, "鞀鞁鞂鞃鞄鞅鞆鞇鞈鞉鞊鞋鞌鞍鞎鞏鞐鞑鞒鞓鞔鞕鞖鞗鞘鞙鞚鞛鞜鞝鞞鞟鞠鞡鞢鞣鞤鞥鞦鞧鞨鞩鞪鞫鞬鞭鞮鞯鞰鞱鞲鞳鞴鞵鞶鞷鞸鞹鞺鞻鞼鞽鞾鞿韀韁韂韃韄韅韆韇韈韉韊韋韌韍韎韏韐韑韒韓韔韕韖韗韘韙韚韛韜韝韞韟韠韡韢韣韤韥韦韧韨韩韪韫韬韭韮韯韰韱韲音韴韵韶韷韸韹韺韻韼韽韾響" >>,
       << 39040, "颀颁颂颃预颅领颇颈颉颊颋颌颍颎颏颐频颒颓颔颕颖颗题颙颚颛颜额颞颟颠颡颢颣颤颥颦颧風颩颪颫颬颭颮颯颰颱颲颳颴颵颶颷颸颹颺颻颼颽颾颿飀飁飂飃飄飅飆飇飈飉飊飋飌飍风飏飐飑飒飓飔飕飖飗飘飙飚飛飜飝飞食飠飡飢飣飤飥飦飧飨飩飪飫飬飭飮飯飰飱飲飳飴飵飶飷飸飹飺飻飼飽飾飿" >>,
       << 39296, "馀馁馂馃馄馅馆馇馈馉馊馋馌馍馎馏馐馑馒馓馔馕首馗馘香馚馛馜馝馞馟馠馡馢馣馤馥馦馧馨馩馪馫馬馭馮馯馰馱馲馳馴馵馶馷馸馹馺馻馼馽馾馿駀駁駂駃駄駅駆駇駈駉駊駋駌駍駎駏駐駑駒駓駔駕駖駗駘駙駚駛駜駝駞駟駠駡駢駣駤駥駦駧駨駩駪駫駬駭駮駯駰駱駲駳駴駵駶駷駸駹駺駻駼駽駾駿" >>,
       << 39552, "骀骁骂骃骄骅骆骇骈骉骊骋验骍骎骏骐骑骒骓骔骕骖骗骘骙骚骛骜骝骞骟骠骡骢骣骤骥骦骧骨骩骪骫骬骭骮骯骰骱骲骳骴骵骶骷骸骹骺骻骼骽骾骿髀髁髂髃髄髅髆髇髈髉髊髋髌髍髎髏髐髑髒髓體髕髖髗高髙髚髛髜髝髞髟髠髡髢髣髤髥髦髧髨髩髪髫髬髭髮髯髰髱髲髳髴髵髶髷髸髹髺髻髼髽髾髿" >>,
       << 39808, "鮀鮁鮂鮃鮄鮅鮆鮇鮈鮉鮊鮋鮌鮍鮎鮏鮐鮑鮒鮓鮔鮕鮖鮗鮘鮙鮚鮛鮜鮝鮞鮟鮠鮡鮢鮣鮤鮥鮦鮧鮨鮩鮪鮫鮬鮭鮮鮯鮰鮱鮲鮳鮴鮵鮶鮷鮸鮹鮺鮻鮼鮽鮾鮿鯀鯁鯂鯃鯄鯅鯆鯇鯈鯉鯊鯋鯌鯍鯎鯏鯐鯑鯒鯓鯔鯕鯖鯗鯘鯙鯚鯛鯜鯝鯞鯟鯠鯡鯢鯣鯤鯥鯦鯧鯨鯩鯪鯫鯬鯭鯮鯯鯰鯱鯲鯳鯴鯵鯶鯷鯸鯹鯺鯻鯼鯽鯾鯿" >>,
       << 40064, "鲀鲁鲂鲃鲄鲅鲆鲇鲈鲉鲊鲋鲌鲍鲎鲏鲐鲑鲒鲓鲔鲕鲖鲗鲘鲙鲚鲛鲜鲝鲞鲟鲠鲡鲢鲣鲤鲥鲦鲧鲨鲩鲪鲫鲬鲭鲮鲯鲰鲱鲲鲳鲴鲵鲶鲷鲸鲹鲺鲻鲼鲽鲾鲿鳀鳁鳂鳃鳄鳅鳆鳇鳈鳉鳊鳋鳌鳍鳎鳏鳐鳑鳒鳓鳔鳕鳖鳗鳘鳙鳚鳛鳜鳝鳞鳟鳠鳡鳢鳣鳤鳥鳦鳧鳨鳩鳪鳫鳬鳭鳮鳯鳰鳱鳲鳳鳴鳵鳶鳷鳸鳹鳺鳻鳼鳽鳾鳿" >>,
       << 40320, "鶀鶁鶂鶃鶄鶅鶆鶇鶈鶉鶊鶋鶌鶍鶎鶏鶐鶑鶒鶓鶔鶕鶖鶗鶘鶙鶚鶛鶜鶝鶞鶟鶠鶡鶢鶣鶤鶥鶦鶧鶨鶩鶪鶫鶬鶭鶮鶯鶰鶱鶲鶳鶴鶵鶶鶷鶸鶹鶺鶻鶼鶽鶾鶿鷀鷁鷂鷃鷄鷅鷆鷇鷈鷉鷊鷋鷌鷍鷎鷏鷐鷑鷒鷓鷔鷕鷖鷗鷘鷙鷚鷛鷜鷝鷞鷟鷠鷡鷢鷣鷤鷥鷦鷧鷨鷩鷪鷫鷬鷭鷮鷯鷰鷱鷲鷳鷴鷵鷶鷷鷸鷹鷺鷻鷼鷽鷾鷿" >>,
       << 40576, "麀麁麂麃麄麅麆麇麈麉麊麋麌麍麎麏麐麑麒麓麔麕麖麗麘麙麚麛麜麝麞麟麠麡麢麣麤麥麦麧麨麩麪麫麬麭麮麯麰麱麲麳麴麵麶麷麸麹麺麻麼麽麾麿黀黁黂黃黄黅黆黇黈黉黊黋黌黍黎黏黐黑黒黓黔黕黖黗默黙黚黛黜黝點黟黠黡黢黣黤黥黦黧黨黩黪黫黬黭黮黯黰黱黲黳黴黵黶黷黸黹黺黻黼黽黾黿" >>,
       << 40832, "龀龁龂龃龄龅龆龇龈龉龊龋龌龍龎龏龐龑龒龓龔龕龖龗龘龙龚龛龜龝龞龟龠龡龢龣龤龥龦龧龨龩龪龫龬龭龮龯龰龱龲龳龴龵龶龷龸龹龺龻龼龽龾龿鿀鿁鿂鿃鿄鿅鿆鿇鿈鿉鿊鿋鿌鿍鿎鿏鿐鿑鿒鿓鿔鿕鿖鿗鿘鿙鿚鿛鿜鿝鿞鿟鿠鿡鿢鿣鿤鿥鿦鿧鿨鿩鿪鿫鿬鿭鿮鿯鿰鿱鿲鿳鿴鿵鿶鿷鿸鿹鿺鿻鿼鿽鿾鿿" >>,
       << 41088, "ꂀꂁꂂꂃꂄꂅꂆꂇꂈꂉꂊꂋꂌꂍꂎꂏꂐꂑꂒꂓꂔꂕꂖꂗꂘꂙꂚꂛꂜꂝꂞꂟꂠꂡꂢꂣꂤꂥꂦꂧꂨꂩꂪꂫꂬꂭꂮꂯꂰꂱꂲꂳꂴꂵꂶꂷꂸꂹꂺꂻꂼꂽꂾꂿꃀꃁꃂꃃꃄꃅꃆꃇꃈꃉꃊꃋꃌꃍꃎꃏꃐꃑꃒꃓꃔꃕꃖꃗꃘꃙꃚꃛꃜꃝꃞꃟꃠꃡꃢꃣꃤꃥꃦꃧꃨꃩꃪꃫꃬꃭꃮꃯꃰꃱꃲꃳꃴꃵꃶꃷꃸꃹꃺꃻꃼꃽꃾꃿ" >>,
       << 41344, "ꆀꆁꆂꆃꆄꆅꆆꆇꆈꆉꆊꆋꆌꆍꆎꆏꆐꆑꆒꆓꆔꆕꆖꆗꆘꆙꆚꆛꆜꆝꆞꆟꆠꆡꆢꆣꆤꆥꆦꆧꆨꆩꆪꆫꆬꆭꆮꆯꆰꆱꆲꆳꆴꆵꆶꆷꆸꆹꆺꆻꆼꆽꆾꆿꇀꇁꇂꇃꇄꇅꇆꇇꇈꇉꇊꇋꇌꇍꇎꇏꇐꇑꇒꇓꇔꇕꇖꇗꇘꇙꇚꇛꇜꇝꇞꇟꇠꇡꇢꇣꇤꇥꇦꇧꇨꇩꇪꇫꇬꇭꇮꇯꇰꇱꇲꇳꇴꇵꇶꇷꇸꇹꇺꇻꇼꇽꇾꇿ" >>,
       << 41600, "ꊀꊁꊂꊃꊄꊅꊆꊇꊈꊉꊊꊋꊌꊍꊎꊏꊐꊑꊒꊓꊔꊕꊖꊗꊘꊙꊚꊛꊜꊝꊞꊟꊠꊡꊢꊣꊤꊥꊦꊧꊨꊩꊪꊫꊬꊭꊮꊯꊰꊱꊲꊳꊴꊵꊶꊷꊸꊹꊺꊻꊼꊽꊾꊿꋀꋁꋂꋃꋄꋅꋆꋇꋈꋉꋊꋋꋌꋍꋎꋏꋐꋑꋒꋓꋔꋕꋖꋗꋘꋙꋚꋛꋜꋝꋞꋟꋠꋡꋢꋣꋤꋥꋦꋧꋨꋩꋪꋫꋬꋭꋮꋯꋰꋱꋲꋳꋴꋵꋶꋷꋸꋹꋺꋻꋼꋽꋾꋿ" >>,
       << 41856, "ꎀꎁꎂꎃꎄꎅꎆꎇꎈꎉꎊꎋꎌꎍꎎꎏꎐꎑꎒꎓꎔꎕꎖꎗꎘꎙꎚꎛꎜꎝꎞꎟꎠꎡꎢꎣꎤꎥꎦꎧꎨꎩꎪꎫꎬꎭꎮꎯꎰꎱꎲꎳꎴꎵꎶꎷꎸꎹꎺꎻꎼꎽꎾꎿꏀꏁꏂꏃꏄꏅꏆꏇꏈꏉꏊꏋꏌꏍꏎꏏꏐꏑꏒꏓꏔꏕꏖꏗꏘꏙꏚꏛꏜꏝꏞꏟꏠꏡꏢꏣꏤꏥꏦꏧꏨꏩꏪꏫꏬꏭꏮꏯꏰꏱꏲꏳꏴꏵꏶꏷꏸꏹꏺꏻꏼꏽꏾꏿ" >>,
       << 42112, "ꒀꒁꒂꒃꒄꒅꒆꒇꒈꒉꒊꒋꒌ꒍꒎꒏꒐꒑꒒꒓꒔꒕꒖꒗꒘꒙꒚꒛꒜꒝꒞꒟꒠꒡꒢꒣꒤꒥꒦꒧꒨꒩꒪꒫꒬꒭꒮꒯꒰꒱꒲꒳꒴꒵꒶꒷꒸꒹꒺꒻꒼꒽꒾꒿꓀꓁꓂꓃꓄꓅꓆꓇꓈꓉꓊꓋꓌꓍꓎꓏ꓐꓑꓒꓓꓔꓕꓖꓗꓘꓙꓚꓛꓜꓝꓞꓟꓠꓡꓢꓣꓤꓥꓦꓧꓨꓩꓪꓫꓬꓭꓮꓯꓰꓱꓲꓳꓴꓵꓶꓷꓸꓹꓺꓻꓼꓽ꓾꓿" >>,
       << 42368, "ꖀꖁꖂꖃꖄꖅꖆꖇꖈꖉꖊꖋꖌꖍꖎꖏꖐꖑꖒꖓꖔꖕꖖꖗꖘꖙꖚꖛꖜꖝꖞꖟꖠꖡꖢꖣꖤꖥꖦꖧꖨꖩꖪꖫꖬꖭꖮꖯꖰꖱꖲꖳꖴꖵꖶꖷꖸꖹꖺꖻꖼꖽꖾꖿꗀꗁꗂꗃꗄꗅꗆꗇꗈꗉꗊꗋꗌꗍꗎꗏꗐꗑꗒꗓꗔꗕꗖꗗꗘꗙꗚꗛꗜꗝꗞꗟꗠꗡꗢꗣꗤꗥꗦꗧꗨꗩꗪꗫꗬꗭꗮꗯꗰꗱꗲꗳꗴꗵꗶꗷꗸꗹꗺꗻꗼꗽꗾꗿ" >>,
       << 42624, "ꚀꚁꚂꚃꚄꚅꚆꚇꚈꚉꚊꚋꚌꚍꚎꚏꚐꚑꚒꚓꚔꚕꚖꚗꚘꚙꚚꚛꚜꚝꚞꚟꚠꚡꚢꚣꚤꚥꚦꚧꚨꚩꚪꚫꚬꚭꚮꚯꚰꚱꚲꚳꚴꚵꚶꚷꚸꚹꚺꚻꚼꚽꚾꚿꛀꛁꛂꛃꛄꛅꛆꛇꛈꛉꛊꛋꛌꛍꛎꛏꛐꛑꛒꛓꛔꛕꛖꛗꛘꛙꛚꛛꛜꛝꛞꛟꛠꛡꛢꛣꛤꛥꛦꛧꛨꛩꛪꛫꛬꛭꛮꛯ꛰꛱꛲꛳꛴꛵꛶꛷꛸꛹꛺꛻꛼꛽꛾꛿" >>,
       << 42880, "ꞀꞁꞂꞃꞄꞅꞆꞇꞈ꞉꞊ꞋꞌꞍꞎꞏꞐꞑꞒꞓꞔꞕꞖꞗꞘꞙꞚꞛꞜꞝꞞꞟꞠꞡꞢꞣꞤꞥꞦꞧꞨꞩꞪꞫꞬꞭꞮꞯꞰꞱꞲꞳꞴꞵꞶꞷꞸꞹꞺꞻꞼꞽꞾꞿꟀꟁꟂꟃꟄꟅꟆꟇꟈꟉꟊꟋꟌꟍ꟎꟏Ꟑꟑ꟒ꟓ꟔ꟕꟖꟗꟘꟙꟚꟛꟜ꟝꟞꟟꟠꟡꟢꟣꟤꟥꟦꟧꟨꟩꟪꟫꟬꟭꟮꟯꟰꟱ꟲꟳꟴꟵꟶꟷꟸꟹꟺꟻꟼꟽꟾꟿ" >>,
       << 43136, "ꢀꢁꢂꢃꢄꢅꢆꢇꢈꢉꢊꢋꢌꢍꢎꢏꢐꢑꢒꢓꢔꢕꢖꢗꢘꢙꢚꢛꢜꢝꢞꢟꢠꢡꢢꢣꢤꢥꢦꢧꢨꢩꢪꢫꢬꢭꢮꢯꢰꢱꢲꢳꢴꢵꢶꢷꢸꢹꢺꢻꢼꢽꢾꢿꣀꣁꣂꣃ꣄ꣅ꣆꣇꣈꣉꣊꣋꣌꣍꣎꣏꣐꣑꣒꣓꣔꣕꣖꣗꣘꣙꣚꣛꣜꣝꣞꣟꣠꣡꣢꣣꣤꣥꣦꣧꣨꣩꣪꣫꣬꣭꣮꣯꣰꣱ꣲꣳꣴꣵꣶꣷ꣸꣹꣺ꣻ꣼ꣽꣾꣿ" >>,
       << 43392, "ꦀꦁꦂꦃꦄꦅꦆꦇꦈꦉꦊꦋꦌꦍꦎꦏꦐꦑꦒꦓꦔꦕꦖꦗꦘꦙꦚꦛꦜꦝꦞꦟꦠꦡꦢꦣꦤꦥꦦꦧꦨꦩꦪꦫꦬꦭꦮꦯꦰꦱꦲ꦳ꦴꦵꦶꦷꦸꦹꦺꦻꦼꦽꦾꦿ꧀꧁꧂꧃꧄꧅꧆꧇꧈꧉꧊꧋꧌꧍꧎ꧏ꧐꧑꧒꧓꧔꧕꧖꧗꧘꧙꧚꧛꧜꧝꧞꧟ꧠꧡꧢꧣꧤꧥꧦꧧꧨꧩꧪꧫꧬꧭꧮꧯ꧰꧱꧲꧳꧴꧵꧶꧷꧸꧹ꧺꧻꧼꧽꧾ꧿" >>,
       << 43648, "ꪀꪁꪂꪃꪄꪅꪆꪇꪈꪉꪊꪋꪌꪍꪎꪏꪐꪑꪒꪓꪔꪕꪖꪗꪘꪙꪚꪛꪜꪝꪞꪟꪠꪡꪢꪣꪤꪥꪦꪧꪨꪩꪪꪫꪬꪭꪮꪯꪰꪱꪴꪲꪳꪵꪶꪷꪸꪹꪺꪻꪼꪽꪾ꪿ꫀ꫁ꫂ꫃꫄꫅꫆꫇꫈꫉꫊꫋꫌꫍꫎꫏꫐꫑꫒꫓꫔꫕꫖꫗꫘꫙꫚ꫛꫜꫝ꫞꫟ꫠꫡꫢꫣꫤꫥꫦꫧꫨꫩꫪꫫꫬꫭꫮꫯ꫰꫱ꫲꫳꫴꫵ꫶꫷꫸꫹꫺꫻꫼꫽꫾꫿" >>,
       << 43904, "ꮀꮁꮂꮃꮄꮅꮆꮇꮈꮉꮊꮋꮌꮍꮎꮏꮐꮑꮒꮓꮔꮕꮖꮗꮘꮙꮚꮛꮜꮝꮞꮟꮠꮡꮢꮣꮤꮥꮦꮧꮨꮩꮪꮫꮬꮭꮮꮯꮰꮱꮲꮳꮴꮵꮶꮷꮸꮹꮺꮻꮼꮽꮾꮿꯀꯁꯂꯃꯄꯅꯆꯇꯈꯉꯊꯋꯌꯍꯎꯏꯐꯑꯒꯓꯔꯕꯖꯗꯘꯙꯚꯛꯜꯝꯞꯟꯠꯡꯢꯣꯤꯥꯦꯧꯨꯩꯪ꯫꯬꯭꯮꯯꯰꯱꯲꯳꯴꯵꯶꯷꯸꯹꯺꯻꯼꯽꯾꯿" >>,
       << 44160, "검겁겂것겄겅겆겇겈겉겊겋게겍겎겏겐겑겒겓겔겕겖겗겘겙겚겛겜겝겞겟겠겡겢겣겤겥겦겧겨격겪겫견겭겮겯결겱겲겳겴겵겶겷겸겹겺겻겼경겾겿곀곁곂곃계곅곆곇곈곉곊곋곌곍곎곏곐곑곒곓곔곕곖곗곘곙곚곛곜곝곞곟고곡곢곣곤곥곦곧골곩곪곫곬곭곮곯곰곱곲곳곴공곶곷곸곹곺곻과곽곾곿" >>,
       << 44416, "궀궁궂궃궄궅궆궇궈궉궊궋권궍궎궏궐궑궒궓궔궕궖궗궘궙궚궛궜궝궞궟궠궡궢궣궤궥궦궧궨궩궪궫궬궭궮궯궰궱궲궳궴궵궶궷궸궹궺궻궼궽궾궿귀귁귂귃귄귅귆귇귈귉귊귋귌귍귎귏귐귑귒귓귔귕귖귗귘귙귚귛규귝귞귟균귡귢귣귤귥귦귧귨귩귪귫귬귭귮귯귰귱귲귳귴귵귶귷그극귺귻근귽귾귿" >>,
       << 44672, "꺀꺁꺂꺃꺄꺅꺆꺇꺈꺉꺊꺋꺌꺍꺎꺏꺐꺑꺒꺓꺔꺕꺖꺗꺘꺙꺚꺛꺜꺝꺞꺟꺠꺡꺢꺣꺤꺥꺦꺧꺨꺩꺪꺫꺬꺭꺮꺯꺰꺱꺲꺳꺴꺵꺶꺷꺸꺹꺺꺻꺼꺽꺾꺿껀껁껂껃껄껅껆껇껈껉껊껋껌껍껎껏껐껑껒껓껔껕껖껗께껙껚껛껜껝껞껟껠껡껢껣껤껥껦껧껨껩껪껫껬껭껮껯껰껱껲껳껴껵껶껷껸껹껺껻껼껽껾껿" >>,
       << 44928, "꾀꾁꾂꾃꾄꾅꾆꾇꾈꾉꾊꾋꾌꾍꾎꾏꾐꾑꾒꾓꾔꾕꾖꾗꾘꾙꾚꾛꾜꾝꾞꾟꾠꾡꾢꾣꾤꾥꾦꾧꾨꾩꾪꾫꾬꾭꾮꾯꾰꾱꾲꾳꾴꾵꾶꾷꾸꾹꾺꾻꾼꾽꾾꾿꿀꿁꿂꿃꿄꿅꿆꿇꿈꿉꿊꿋꿌꿍꿎꿏꿐꿑꿒꿓꿔꿕꿖꿗꿘꿙꿚꿛꿜꿝꿞꿟꿠꿡꿢꿣꿤꿥꿦꿧꿨꿩꿪꿫꿬꿭꿮꿯꿰꿱꿲꿳꿴꿵꿶꿷꿸꿹꿺꿻꿼꿽꿾꿿" >>,
       << 45184, "낀낁낂낃낄낅낆낇낈낉낊낋낌낍낎낏낐낑낒낓낔낕낖낗나낙낚낛난낝낞낟날낡낢낣낤낥낦낧남납낪낫났낭낮낯낰낱낲낳내낵낶낷낸낹낺낻낼낽낾낿냀냁냂냃냄냅냆냇냈냉냊냋냌냍냎냏냐냑냒냓냔냕냖냗냘냙냚냛냜냝냞냟냠냡냢냣냤냥냦냧냨냩냪냫냬냭냮냯냰냱냲냳냴냵냶냷냸냹냺냻냼냽냾냿" >>,
       << 45440, "놀놁놂놃놄놅놆놇놈놉놊놋놌농놎놏놐놑높놓놔놕놖놗놘놙놚놛놜놝놞놟놠놡놢놣놤놥놦놧놨놩놪놫놬놭놮놯놰놱놲놳놴놵놶놷놸놹놺놻놼놽놾놿뇀뇁뇂뇃뇄뇅뇆뇇뇈뇉뇊뇋뇌뇍뇎뇏뇐뇑뇒뇓뇔뇕뇖뇗뇘뇙뇚뇛뇜뇝뇞뇟뇠뇡뇢뇣뇤뇥뇦뇧뇨뇩뇪뇫뇬뇭뇮뇯뇰뇱뇲뇳뇴뇵뇶뇷뇸뇹뇺뇻뇼뇽뇾뇿" >>,
       << 45696, "늀늁늂늃늄늅늆늇늈늉늊늋늌늍늎늏느늑늒늓는늕늖늗늘늙늚늛늜늝늞늟늠늡늢늣늤능늦늧늨늩늪늫늬늭늮늯늰늱늲늳늴늵늶늷늸늹늺늻늼늽늾늿닀닁닂닃닄닅닆닇니닉닊닋닌닍닎닏닐닑닒닓닔닕닖닗님닙닚닛닜닝닞닟닠닡닢닣다닥닦닧단닩닪닫달닭닮닯닰닱닲닳담답닶닷닸당닺닻닼닽닾닿" >>,
       << 45952, "뎀뎁뎂뎃뎄뎅뎆뎇뎈뎉뎊뎋뎌뎍뎎뎏뎐뎑뎒뎓뎔뎕뎖뎗뎘뎙뎚뎛뎜뎝뎞뎟뎠뎡뎢뎣뎤뎥뎦뎧뎨뎩뎪뎫뎬뎭뎮뎯뎰뎱뎲뎳뎴뎵뎶뎷뎸뎹뎺뎻뎼뎽뎾뎿돀돁돂돃도독돆돇돈돉돊돋돌돍돎돏돐돑돒돓돔돕돖돗돘동돚돛돜돝돞돟돠돡돢돣돤돥돦돧돨돩돪돫돬돭돮돯돰돱돲돳돴돵돶돷돸돹돺돻돼돽돾돿" >>,
       << 46208, "뒀뒁뒂뒃뒄뒅뒆뒇뒈뒉뒊뒋뒌뒍뒎뒏뒐뒑뒒뒓뒔뒕뒖뒗뒘뒙뒚뒛뒜뒝뒞뒟뒠뒡뒢뒣뒤뒥뒦뒧뒨뒩뒪뒫뒬뒭뒮뒯뒰뒱뒲뒳뒴뒵뒶뒷뒸뒹뒺뒻뒼뒽뒾뒿듀듁듂듃듄듅듆듇듈듉듊듋듌듍듎듏듐듑듒듓듔듕듖듗듘듙듚듛드득듞듟든듡듢듣들듥듦듧듨듩듪듫듬듭듮듯듰등듲듳듴듵듶듷듸듹듺듻듼듽듾듿" >>,
       << 46464, "떀떁떂떃떄떅떆떇떈떉떊떋떌떍떎떏떐떑떒떓떔떕떖떗떘떙떚떛떜떝떞떟떠떡떢떣떤떥떦떧떨떩떪떫떬떭떮떯떰떱떲떳떴떵떶떷떸떹떺떻떼떽떾떿뗀뗁뗂뗃뗄뗅뗆뗇뗈뗉뗊뗋뗌뗍뗎뗏뗐뗑뗒뗓뗔뗕뗖뗗뗘뗙뗚뗛뗜뗝뗞뗟뗠뗡뗢뗣뗤뗥뗦뗧뗨뗩뗪뗫뗬뗭뗮뗯뗰뗱뗲뗳뗴뗵뗶뗷뗸뗹뗺뗻뗼뗽뗾뗿" >>,
       << 46720, "뚀뚁뚂뚃뚄뚅뚆뚇뚈뚉뚊뚋뚌뚍뚎뚏뚐뚑뚒뚓뚔뚕뚖뚗뚘뚙뚚뚛뚜뚝뚞뚟뚠뚡뚢뚣뚤뚥뚦뚧뚨뚩뚪뚫뚬뚭뚮뚯뚰뚱뚲뚳뚴뚵뚶뚷뚸뚹뚺뚻뚼뚽뚾뚿뛀뛁뛂뛃뛄뛅뛆뛇뛈뛉뛊뛋뛌뛍뛎뛏뛐뛑뛒뛓뛔뛕뛖뛗뛘뛙뛚뛛뛜뛝뛞뛟뛠뛡뛢뛣뛤뛥뛦뛧뛨뛩뛪뛫뛬뛭뛮뛯뛰뛱뛲뛳뛴뛵뛶뛷뛸뛹뛺뛻뛼뛽뛾뛿" >>,
       << 46976, "란랁랂랃랄랅랆랇랈랉랊랋람랍랎랏랐랑랒랓랔랕랖랗래랙랚랛랜랝랞랟랠랡랢랣랤랥랦랧램랩랪랫랬랭랮랯랰랱랲랳랴략랶랷랸랹랺랻랼랽랾랿럀럁럂럃럄럅럆럇럈량럊럋럌럍럎럏럐럑럒럓럔럕럖럗럘럙럚럛럜럝럞럟럠럡럢럣럤럥럦럧럨럩럪럫러럭럮럯런럱럲럳럴럵럶럷럸럹럺럻럼럽럾럿" >>,
       << 47232, "뢀뢁뢂뢃뢄뢅뢆뢇뢈뢉뢊뢋뢌뢍뢎뢏뢐뢑뢒뢓뢔뢕뢖뢗뢘뢙뢚뢛뢜뢝뢞뢟뢠뢡뢢뢣뢤뢥뢦뢧뢨뢩뢪뢫뢬뢭뢮뢯뢰뢱뢲뢳뢴뢵뢶뢷뢸뢹뢺뢻뢼뢽뢾뢿룀룁룂룃룄룅룆룇룈룉룊룋료룍룎룏룐룑룒룓룔룕룖룗룘룙룚룛룜룝룞룟룠룡룢룣룤룥룦룧루룩룪룫룬룭룮룯룰룱룲룳룴룵룶룷룸룹룺룻룼룽룾룿" >>,
       << 47488, "릀릁릂릃름릅릆릇릈릉릊릋릌릍릎릏릐릑릒릓릔릕릖릗릘릙릚릛릜릝릞릟릠릡릢릣릤릥릦릧릨릩릪릫리릭릮릯린릱릲릳릴릵릶릷릸릹릺릻림립릾릿맀링맂맃맄맅맆맇마막맊맋만맍많맏말맑맒맓맔맕맖맗맘맙맚맛맜망맞맟맠맡맢맣매맥맦맧맨맩맪맫맬맭맮맯맰맱맲맳맴맵맶맷맸맹맺맻맼맽맾맿" >>,
       << 47744, "몀몁몂몃몄명몆몇몈몉몊몋몌몍몎몏몐몑몒몓몔몕몖몗몘몙몚몛몜몝몞몟몠몡몢몣몤몥몦몧모목몪몫몬몭몮몯몰몱몲몳몴몵몶몷몸몹몺못몼몽몾몿뫀뫁뫂뫃뫄뫅뫆뫇뫈뫉뫊뫋뫌뫍뫎뫏뫐뫑뫒뫓뫔뫕뫖뫗뫘뫙뫚뫛뫜뫝뫞뫟뫠뫡뫢뫣뫤뫥뫦뫧뫨뫩뫪뫫뫬뫭뫮뫯뫰뫱뫲뫳뫴뫵뫶뫷뫸뫹뫺뫻뫼뫽뫾뫿" >>,
       << 48000, "뮀뮁뮂뮃뮄뮅뮆뮇뮈뮉뮊뮋뮌뮍뮎뮏뮐뮑뮒뮓뮔뮕뮖뮗뮘뮙뮚뮛뮜뮝뮞뮟뮠뮡뮢뮣뮤뮥뮦뮧뮨뮩뮪뮫뮬뮭뮮뮯뮰뮱뮲뮳뮴뮵뮶뮷뮸뮹뮺뮻뮼뮽뮾뮿므믁믂믃믄믅믆믇믈믉믊믋믌믍믎믏믐믑믒믓믔믕믖믗믘믙믚믛믜믝믞믟믠믡믢믣믤믥믦믧믨믩믪믫믬믭믮믯믰믱믲믳믴믵믶믷미믹믺믻민믽믾믿" >>,
       << 48256, "벀벁벂벃버벅벆벇번벉벊벋벌벍벎벏벐벑벒벓범법벖벗벘벙벚벛벜벝벞벟베벡벢벣벤벥벦벧벨벩벪벫벬벭벮벯벰벱벲벳벴벵벶벷벸벹벺벻벼벽벾벿변볁볂볃별볅볆볇볈볉볊볋볌볍볎볏볐병볒볓볔볕볖볗볘볙볚볛볜볝볞볟볠볡볢볣볤볥볦볧볨볩볪볫볬볭볮볯볰볱볲볳보복볶볷본볹볺볻볼볽볾볿" >>,
       << 48512, "부북붂붃분붅붆붇불붉붊붋붌붍붎붏붐붑붒붓붔붕붖붗붘붙붚붛붜붝붞붟붠붡붢붣붤붥붦붧붨붩붪붫붬붭붮붯붰붱붲붳붴붵붶붷붸붹붺붻붼붽붾붿뷀뷁뷂뷃뷄뷅뷆뷇뷈뷉뷊뷋뷌뷍뷎뷏뷐뷑뷒뷓뷔뷕뷖뷗뷘뷙뷚뷛뷜뷝뷞뷟뷠뷡뷢뷣뷤뷥뷦뷧뷨뷩뷪뷫뷬뷭뷮뷯뷰뷱뷲뷳뷴뷵뷶뷷뷸뷹뷺뷻뷼뷽뷾뷿" >>,
       << 48768, "뺀뺁뺂뺃뺄뺅뺆뺇뺈뺉뺊뺋뺌뺍뺎뺏뺐뺑뺒뺓뺔뺕뺖뺗뺘뺙뺚뺛뺜뺝뺞뺟뺠뺡뺢뺣뺤뺥뺦뺧뺨뺩뺪뺫뺬뺭뺮뺯뺰뺱뺲뺳뺴뺵뺶뺷뺸뺹뺺뺻뺼뺽뺾뺿뻀뻁뻂뻃뻄뻅뻆뻇뻈뻉뻊뻋뻌뻍뻎뻏뻐뻑뻒뻓뻔뻕뻖뻗뻘뻙뻚뻛뻜뻝뻞뻟뻠뻡뻢뻣뻤뻥뻦뻧뻨뻩뻪뻫뻬뻭뻮뻯뻰뻱뻲뻳뻴뻵뻶뻷뻸뻹뻺뻻뻼뻽뻾뻿" >>,
       << 49024, "뾀뾁뾂뾃뾄뾅뾆뾇뾈뾉뾊뾋뾌뾍뾎뾏뾐뾑뾒뾓뾔뾕뾖뾗뾘뾙뾚뾛뾜뾝뾞뾟뾠뾡뾢뾣뾤뾥뾦뾧뾨뾩뾪뾫뾬뾭뾮뾯뾰뾱뾲뾳뾴뾵뾶뾷뾸뾹뾺뾻뾼뾽뾾뾿뿀뿁뿂뿃뿄뿅뿆뿇뿈뿉뿊뿋뿌뿍뿎뿏뿐뿑뿒뿓뿔뿕뿖뿗뿘뿙뿚뿛뿜뿝뿞뿟뿠뿡뿢뿣뿤뿥뿦뿧뿨뿩뿪뿫뿬뿭뿮뿯뿰뿱뿲뿳뿴뿵뿶뿷뿸뿹뿺뿻뿼뿽뿾뿿" >>,
       << 49280, "삀삁삂삃삄삅삆삇삈삉삊삋삌삍삎삏삐삑삒삓삔삕삖삗삘삙삚삛삜삝삞삟삠삡삢삣삤삥삦삧삨삩삪삫사삭삮삯산삱삲삳살삵삶삷삸삹삺삻삼삽삾삿샀상샂샃샄샅샆샇새색샊샋샌샍샎샏샐샑샒샓샔샕샖샗샘샙샚샛샜생샞샟샠샡샢샣샤샥샦샧샨샩샪샫샬샭샮샯샰샱샲샳샴샵샶샷샸샹샺샻샼샽샾샿" >>,
       << 49536, "솀솁솂솃솄솅솆솇솈솉솊솋소속솎솏손솑솒솓솔솕솖솗솘솙솚솛솜솝솞솟솠송솢솣솤솥솦솧솨솩솪솫솬솭솮솯솰솱솲솳솴솵솶솷솸솹솺솻솼솽솾솿쇀쇁쇂쇃쇄쇅쇆쇇쇈쇉쇊쇋쇌쇍쇎쇏쇐쇑쇒쇓쇔쇕쇖쇗쇘쇙쇚쇛쇜쇝쇞쇟쇠쇡쇢쇣쇤쇥쇦쇧쇨쇩쇪쇫쇬쇭쇮쇯쇰쇱쇲쇳쇴쇵쇶쇷쇸쇹쇺쇻쇼쇽쇾쇿" >>,
       << 49792, "슀슁슂슃슄슅슆슇슈슉슊슋슌슍슎슏슐슑슒슓슔슕슖슗슘슙슚슛슜슝슞슟슠슡슢슣스슥슦슧슨슩슪슫슬슭슮슯슰슱슲슳슴습슶슷슸승슺슻슼슽슾슿싀싁싂싃싄싅싆싇싈싉싊싋싌싍싎싏싐싑싒싓싔싕싖싗싘싙싚싛시식싞싟신싡싢싣실싥싦싧싨싩싪싫심십싮싯싰싱싲싳싴싵싶싷싸싹싺싻싼싽싾싿" >>,
       << 50048, "쎀쎁쎂쎃쎄쎅쎆쎇쎈쎉쎊쎋쎌쎍쎎쎏쎐쎑쎒쎓쎔쎕쎖쎗쎘쎙쎚쎛쎜쎝쎞쎟쎠쎡쎢쎣쎤쎥쎦쎧쎨쎩쎪쎫쎬쎭쎮쎯쎰쎱쎲쎳쎴쎵쎶쎷쎸쎹쎺쎻쎼쎽쎾쎿쏀쏁쏂쏃쏄쏅쏆쏇쏈쏉쏊쏋쏌쏍쏎쏏쏐쏑쏒쏓쏔쏕쏖쏗쏘쏙쏚쏛쏜쏝쏞쏟쏠쏡쏢쏣쏤쏥쏦쏧쏨쏩쏪쏫쏬쏭쏮쏯쏰쏱쏲쏳쏴쏵쏶쏷쏸쏹쏺쏻쏼쏽쏾쏿" >>,
       << 50304, "쒀쒁쒂쒃쒄쒅쒆쒇쒈쒉쒊쒋쒌쒍쒎쒏쒐쒑쒒쒓쒔쒕쒖쒗쒘쒙쒚쒛쒜쒝쒞쒟쒠쒡쒢쒣쒤쒥쒦쒧쒨쒩쒪쒫쒬쒭쒮쒯쒰쒱쒲쒳쒴쒵쒶쒷쒸쒹쒺쒻쒼쒽쒾쒿쓀쓁쓂쓃쓄쓅쓆쓇쓈쓉쓊쓋쓌쓍쓎쓏쓐쓑쓒쓓쓔쓕쓖쓗쓘쓙쓚쓛쓜쓝쓞쓟쓠쓡쓢쓣쓤쓥쓦쓧쓨쓩쓪쓫쓬쓭쓮쓯쓰쓱쓲쓳쓴쓵쓶쓷쓸쓹쓺쓻쓼쓽쓾쓿" >>,
       << 50560, "얀얁얂얃얄얅얆얇얈얉얊얋얌얍얎얏얐양얒얓얔얕얖얗얘얙얚얛얜얝얞얟얠얡얢얣얤얥얦얧얨얩얪얫얬얭얮얯얰얱얲얳어억얶얷언얹얺얻얼얽얾얿엀엁엂엃엄업없엇었엉엊엋엌엍엎엏에엑엒엓엔엕엖엗엘엙엚엛엜엝엞엟엠엡엢엣엤엥엦엧엨엩엪엫여역엮엯연엱엲엳열엵엶엷엸엹엺엻염엽엾엿" >>,
       << 50816, "욀욁욂욃욄욅욆욇욈욉욊욋욌욍욎욏욐욑욒욓요욕욖욗욘욙욚욛욜욝욞욟욠욡욢욣욤욥욦욧욨용욪욫욬욭욮욯우욱욲욳운욵욶욷울욹욺욻욼욽욾욿움웁웂웃웄웅웆웇웈웉웊웋워웍웎웏원웑웒웓월웕웖웗웘웙웚웛웜웝웞웟웠웡웢웣웤웥웦웧웨웩웪웫웬웭웮웯웰웱웲웳웴웵웶웷웸웹웺웻웼웽웾웿" >>,
       << 51072, "잀잁잂잃임입잆잇있잉잊잋잌잍잎잏자작잒잓잔잕잖잗잘잙잚잛잜잝잞잟잠잡잢잣잤장잦잧잨잩잪잫재잭잮잯잰잱잲잳잴잵잶잷잸잹잺잻잼잽잾잿쟀쟁쟂쟃쟄쟅쟆쟇쟈쟉쟊쟋쟌쟍쟎쟏쟐쟑쟒쟓쟔쟕쟖쟗쟘쟙쟚쟛쟜쟝쟞쟟쟠쟡쟢쟣쟤쟥쟦쟧쟨쟩쟪쟫쟬쟭쟮쟯쟰쟱쟲쟳쟴쟵쟶쟷쟸쟹쟺쟻쟼쟽쟾쟿" >>,
       << 51328, "좀좁좂좃좄종좆좇좈좉좊좋좌좍좎좏좐좑좒좓좔좕좖좗좘좙좚좛좜좝좞좟좠좡좢좣좤좥좦좧좨좩좪좫좬좭좮좯좰좱좲좳좴좵좶좷좸좹좺좻좼좽좾좿죀죁죂죃죄죅죆죇죈죉죊죋죌죍죎죏죐죑죒죓죔죕죖죗죘죙죚죛죜죝죞죟죠죡죢죣죤죥죦죧죨죩죪죫죬죭죮죯죰죱죲죳죴죵죶죷죸죹죺죻주죽죾죿" >>,
       << 51584, "즀즁즂즃즄즅즆즇즈즉즊즋즌즍즎즏즐즑즒즓즔즕즖즗즘즙즚즛즜증즞즟즠즡즢즣즤즥즦즧즨즩즪즫즬즭즮즯즰즱즲즳즴즵즶즷즸즹즺즻즼즽즾즿지직짂짃진짅짆짇질짉짊짋짌짍짎짏짐집짒짓짔징짖짗짘짙짚짛짜짝짞짟짠짡짢짣짤짥짦짧짨짩짪짫짬짭짮짯짰짱짲짳짴짵짶짷째짹짺짻짼짽짾짿" >>,
       << 51840, "쪀쪁쪂쪃쪄쪅쪆쪇쪈쪉쪊쪋쪌쪍쪎쪏쪐쪑쪒쪓쪔쪕쪖쪗쪘쪙쪚쪛쪜쪝쪞쪟쪠쪡쪢쪣쪤쪥쪦쪧쪨쪩쪪쪫쪬쪭쪮쪯쪰쪱쪲쪳쪴쪵쪶쪷쪸쪹쪺쪻쪼쪽쪾쪿쫀쫁쫂쫃쫄쫅쫆쫇쫈쫉쫊쫋쫌쫍쫎쫏쫐쫑쫒쫓쫔쫕쫖쫗쫘쫙쫚쫛쫜쫝쫞쫟쫠쫡쫢쫣쫤쫥쫦쫧쫨쫩쫪쫫쫬쫭쫮쫯쫰쫱쫲쫳쫴쫵쫶쫷쫸쫹쫺쫻쫼쫽쫾쫿" >>,
       << 52096, "쮀쮁쮂쮃쮄쮅쮆쮇쮈쮉쮊쮋쮌쮍쮎쮏쮐쮑쮒쮓쮔쮕쮖쮗쮘쮙쮚쮛쮜쮝쮞쮟쮠쮡쮢쮣쮤쮥쮦쮧쮨쮩쮪쮫쮬쮭쮮쮯쮰쮱쮲쮳쮴쮵쮶쮷쮸쮹쮺쮻쮼쮽쮾쮿쯀쯁쯂쯃쯄쯅쯆쯇쯈쯉쯊쯋쯌쯍쯎쯏쯐쯑쯒쯓쯔쯕쯖쯗쯘쯙쯚쯛쯜쯝쯞쯟쯠쯡쯢쯣쯤쯥쯦쯧쯨쯩쯪쯫쯬쯭쯮쯯쯰쯱쯲쯳쯴쯵쯶쯷쯸쯹쯺쯻쯼쯽쯾쯿" >>,
       << 52352, "첀첁첂첃첄첅첆첇첈첉첊첋첌첍첎첏첐첑첒첓첔첕첖첗처척첚첛천첝첞첟철첡첢첣첤첥첦첧첨첩첪첫첬청첮첯첰첱첲첳체첵첶첷첸첹첺첻첼첽첾첿쳀쳁쳂쳃쳄쳅쳆쳇쳈쳉쳊쳋쳌쳍쳎쳏쳐쳑쳒쳓쳔쳕쳖쳗쳘쳙쳚쳛쳜쳝쳞쳟쳠쳡쳢쳣쳤쳥쳦쳧쳨쳩쳪쳫쳬쳭쳮쳯쳰쳱쳲쳳쳴쳵쳶쳷쳸쳹쳺쳻쳼쳽쳾쳿" >>,
       << 52608, "춀춁춂춃춄춅춆춇춈춉춊춋춌춍춎춏춐춑춒춓추축춖춗춘춙춚춛출춝춞춟춠춡춢춣춤춥춦춧춨충춪춫춬춭춮춯춰춱춲춳춴춵춶춷춸춹춺춻춼춽춾춿췀췁췂췃췄췅췆췇췈췉췊췋췌췍췎췏췐췑췒췓췔췕췖췗췘췙췚췛췜췝췞췟췠췡췢췣췤췥췦췧취췩췪췫췬췭췮췯췰췱췲췳췴췵췶췷췸췹췺췻췼췽췾췿" >>,
       << 52864, "캀캁캂캃캄캅캆캇캈캉캊캋캌캍캎캏캐캑캒캓캔캕캖캗캘캙캚캛캜캝캞캟캠캡캢캣캤캥캦캧캨캩캪캫캬캭캮캯캰캱캲캳캴캵캶캷캸캹캺캻캼캽캾캿컀컁컂컃컄컅컆컇컈컉컊컋컌컍컎컏컐컑컒컓컔컕컖컗컘컙컚컛컜컝컞컟컠컡컢컣커컥컦컧컨컩컪컫컬컭컮컯컰컱컲컳컴컵컶컷컸컹컺컻컼컽컾컿" >>,
       << 53120, "쾀쾁쾂쾃쾄쾅쾆쾇쾈쾉쾊쾋쾌쾍쾎쾏쾐쾑쾒쾓쾔쾕쾖쾗쾘쾙쾚쾛쾜쾝쾞쾟쾠쾡쾢쾣쾤쾥쾦쾧쾨쾩쾪쾫쾬쾭쾮쾯쾰쾱쾲쾳쾴쾵쾶쾷쾸쾹쾺쾻쾼쾽쾾쾿쿀쿁쿂쿃쿄쿅쿆쿇쿈쿉쿊쿋쿌쿍쿎쿏쿐쿑쿒쿓쿔쿕쿖쿗쿘쿙쿚쿛쿜쿝쿞쿟쿠쿡쿢쿣쿤쿥쿦쿧쿨쿩쿪쿫쿬쿭쿮쿯쿰쿱쿲쿳쿴쿵쿶쿷쿸쿹쿺쿻쿼쿽쿾쿿" >>,
       << 53376, "킀킁킂킃킄킅킆킇킈킉킊킋킌킍킎킏킐킑킒킓킔킕킖킗킘킙킚킛킜킝킞킟킠킡킢킣키킥킦킧킨킩킪킫킬킭킮킯킰킱킲킳킴킵킶킷킸킹킺킻킼킽킾킿타탁탂탃탄탅탆탇탈탉탊탋탌탍탎탏탐탑탒탓탔탕탖탗탘탙탚탛태택탞탟탠탡탢탣탤탥탦탧탨탩탪탫탬탭탮탯탰탱탲탳탴탵탶탷탸탹탺탻탼탽탾탿" >>,
       << 53632, "톀톁톂톃톄톅톆톇톈톉톊톋톌톍톎톏톐톑톒톓톔톕톖톗톘톙톚톛톜톝톞톟토톡톢톣톤톥톦톧톨톩톪톫톬톭톮톯톰톱톲톳톴통톶톷톸톹톺톻톼톽톾톿퇀퇁퇂퇃퇄퇅퇆퇇퇈퇉퇊퇋퇌퇍퇎퇏퇐퇑퇒퇓퇔퇕퇖퇗퇘퇙퇚퇛퇜퇝퇞퇟퇠퇡퇢퇣퇤퇥퇦퇧퇨퇩퇪퇫퇬퇭퇮퇯퇰퇱퇲퇳퇴퇵퇶퇷퇸퇹퇺퇻퇼퇽퇾퇿" >>,
       << 53888, "튀튁튂튃튄튅튆튇튈튉튊튋튌튍튎튏튐튑튒튓튔튕튖튗튘튙튚튛튜튝튞튟튠튡튢튣튤튥튦튧튨튩튪튫튬튭튮튯튰튱튲튳튴튵튶튷트특튺튻튼튽튾튿틀틁틂틃틄틅틆틇틈틉틊틋틌틍틎틏틐틑틒틓틔틕틖틗틘틙틚틛틜틝틞틟틠틡틢틣틤틥틦틧틨틩틪틫틬틭틮틯티틱틲틳틴틵틶틷틸틹틺틻틼틽틾틿" >>,
       << 54144, "펀펁펂펃펄펅펆펇펈펉펊펋펌펍펎펏펐펑펒펓펔펕펖펗페펙펚펛펜펝펞펟펠펡펢펣펤펥펦펧펨펩펪펫펬펭펮펯펰펱펲펳펴펵펶펷편펹펺펻펼펽펾펿폀폁폂폃폄폅폆폇폈평폊폋폌폍폎폏폐폑폒폓폔폕폖폗폘폙폚폛폜폝폞폟폠폡폢폣폤폥폦폧폨폩폪폫포폭폮폯폰폱폲폳폴폵폶폷폸폹폺폻폼폽폾폿" >>,
       << 54400, "풀풁풂풃풄풅풆풇품풉풊풋풌풍풎풏풐풑풒풓풔풕풖풗풘풙풚풛풜풝풞풟풠풡풢풣풤풥풦풧풨풩풪풫풬풭풮풯풰풱풲풳풴풵풶풷풸풹풺풻풼풽풾풿퓀퓁퓂퓃퓄퓅퓆퓇퓈퓉퓊퓋퓌퓍퓎퓏퓐퓑퓒퓓퓔퓕퓖퓗퓘퓙퓚퓛퓜퓝퓞퓟퓠퓡퓢퓣퓤퓥퓦퓧퓨퓩퓪퓫퓬퓭퓮퓯퓰퓱퓲퓳퓴퓵퓶퓷퓸퓹퓺퓻퓼퓽퓾퓿" >>,
       << 54656, "햀햁햂햃햄햅햆햇했행햊햋햌햍햎햏햐햑햒햓햔햕햖햗햘햙햚햛햜햝햞햟햠햡햢햣햤향햦햧햨햩햪햫햬햭햮햯햰햱햲햳햴햵햶햷햸햹햺햻햼햽햾햿헀헁헂헃헄헅헆헇허헉헊헋헌헍헎헏헐헑헒헓헔헕헖헗험헙헚헛헜헝헞헟헠헡헢헣헤헥헦헧헨헩헪헫헬헭헮헯헰헱헲헳헴헵헶헷헸헹헺헻헼헽헾헿" >>,
       << 54912, "횀횁횂횃횄횅횆횇횈횉횊횋회획횎횏횐횑횒횓횔횕횖횗횘횙횚횛횜횝횞횟횠횡횢횣횤횥횦횧효횩횪횫횬횭횮횯횰횱횲횳횴횵횶횷횸횹횺횻횼횽횾횿훀훁훂훃후훅훆훇훈훉훊훋훌훍훎훏훐훑훒훓훔훕훖훗훘훙훚훛훜훝훞훟훠훡훢훣훤훥훦훧훨훩훪훫훬훭훮훯훰훱훲훳훴훵훶훷훸훹훺훻훼훽훾훿" >>,
       << 55168, "힀힁힂힃힄힅힆힇히힉힊힋힌힍힎힏힐힑힒힓힔힕힖힗힘힙힚힛힜힝힞힟힠힡힢힣힤힥힦힧힨힩힪힫힬힭힮힯ힰힱힲힳힴힵힶힷힸힹힺힻힼힽힾힿퟀퟁퟂퟃퟄퟅퟆ퟇퟈퟉퟊ퟋퟌퟍퟎퟏퟐퟑퟒퟓퟔퟕퟖퟗퟘퟙퟚퟛퟜퟝퟞퟟퟠퟡퟢퟣퟤퟥퟦퟧퟨퟩퟪퟫퟬퟭퟮퟯퟰퟱퟲퟳퟴퟵퟶퟷퟸퟹퟺퟻ퟼퟽퟾퟿" >>,
       << 57472, "" >>,
       << 57728, "" >>,
       << 57984, "" >>,
       << 58240, "" >>,
       << 58496, "" >>,
       << 58752, "" >>,
       << 59008, "" >>,
       << 59264, "" >>,
       << 59520, "" >>,
       << 59776, "" >>,
       << 60032, "" >>,
       << 60288, "" >>,
       << 60544, "" >>,
       << 60800, "" >>,
       << 61056, "" >>,
       << 61312, "" >>,
       << 61568, "" >>,
       << 61824, "" >>,
       << 62080, "" >>,
       << 62336, "" >>,
       << 62592, "" >>,
       << 62848, "" >>,
       << 63104, "" >>,
       << 63360, "" >>,
       << 63616, "" >>,
       << 63872, "呂女廬旅濾礪閭驪麗黎力曆歷轢年憐戀撚漣煉璉秊練聯輦蓮連鍊列劣咽烈裂說廉念捻殮簾獵令囹寧嶺怜玲瑩羚聆鈴零靈領例禮醴隸惡了僚寮尿料樂燎療蓼遼龍暈阮劉杻柳流溜琉留硫紐類六戮陸倫崙淪輪律慄栗率隆利吏履易李梨泥理痢罹裏裡里離匿溺吝燐璘藺隣鱗麟林淋臨立笠粒狀炙識什茶刺" >>,
       << 64128, "婢嬨廒廙彩徭惘慎愈憎慠懲戴揄搜摒敖晴朗望杖歹殺流滛滋漢瀞煮瞧爵犯猪瑱甆画瘝瘟益盛直睊着磌窱節类絛練缾者荒華蝹襁覆視調諸請謁諾諭謹變贈輸遲醙鉶陼難靖韛響頋頻鬒龜𢡊𢡄𣏕㮝䀘䀹𥉉𥳐𧻓齃龎﫚﫛﫜﫝﫞﫟﫠﫡﫢﫣﫤﫥﫦﫧﫨﫩﫪﫫﫬﫭﫮﫯﫰﫱﫲﫳﫴﫵﫶﫷﫸﫹﫺﫻﫼﫽﫾﫿" >>,
       << 64384, "ﮀﮁﮂﮃﮄﮅﮆﮇﮈﮉﮊﮋﮌﮍﮎﮏﮐﮑﮒﮓﮔﮕﮖﮗﮘﮙﮚﮛﮜﮝﮞﮟﮠﮡﮢﮣﮤﮥﮦﮧﮨﮩﮪﮫﮬﮭﮮﮯﮰﮱ﮲﮳﮴﮵﮶﮷﮸﮹﮺﮻﮼﮽﮾﮿﯀﯁﯂﯃﯄﯅﯆﯇﯈﯉﯊﯋﯌﯍﯎﯏﯐﯑﯒ﯓﯔﯕﯖﯗﯘﯙﯚﯛﯜﯝﯞﯟﯠﯡﯢﯣﯤﯥﯦﯧﯨﯩﯪﯫﯬﯭﯮﯯﯰﯱﯲﯳﯴﯵﯶﯷﯸﯹﯺﯻﯼﯽﯾﯿ" >>,
       << 64640, "ﲀﲁﲂﲃﲄﲅﲆﲇﲈﲉﲊﲋﲌﲍﲎﲏﲐﲑﲒﲓﲔﲕﲖﲗﲘﲙﲚﲛﲜﲝﲞﲟﲠﲡﲢﲣﲤﲥﲦﲧﲨﲩﲪﲫﲬﲭﲮﲯﲰﲱﲲﲳﲴﲵﲶﲷﲸﲹﲺﲻﲼﲽﲾﲿﳀﳁﳂﳃﳄﳅﳆﳇﳈﳉﳊﳋﳌﳍﳎﳏﳐﳑﳒﳓﳔﳕﳖﳗﳘﳙﳚﳛﳜﳝﳞﳟﳠﳡﳢﳣﳤﳥﳦﳧﳨﳩﳪﳫﳬﳭﳮﳯﳰﳱﳲﳳﳴﳵﳶﳷﳸﳹﳺﳻﳼﳽﳾﳿ" >>,
       << 64896, "ﶀﶁﶂﶃﶄﶅﶆﶇﶈﶉﶊﶋﶌﶍﶎﶏ﶐﶑ﶒﶓﶔﶕﶖﶗﶘﶙﶚﶛﶜﶝﶞﶟﶠﶡﶢﶣﶤﶥﶦﶧﶨﶩﶪﶫﶬﶭﶮﶯﶰﶱﶲﶳﶴﶵﶶﶷﶸﶹﶺﶻﶼﶽﶾﶿﷀﷁﷂﷃﷄﷅﷆﷇ﷈﷉﷊﷋﷌﷍﷎﷏﷐﷑﷒﷓﷔﷕﷖﷗﷘﷙﷚﷛﷜﷝﷞﷟﷠﷡﷢﷣﷤﷥﷦﷧﷨﷩﷪﷫﷬﷭﷮﷯ﷰﷱﷲﷳﷴﷵﷶﷷﷸﷹﷺﷻ﷼﷽﷾﷿" >>,
       << 65152, "ﺀﺁﺂﺃﺄﺅﺆﺇﺈﺉﺊﺋﺌﺍﺎﺏﺐﺑﺒﺓﺔﺕﺖﺗﺘﺙﺚﺛﺜﺝﺞﺟﺠﺡﺢﺣﺤﺥﺦﺧﺨﺩﺪﺫﺬﺭﺮﺯﺰﺱﺲﺳﺴﺵﺶﺷﺸﺹﺺﺻﺼﺽﺾﺿﻀﻁﻂﻃﻄﻅﻆﻇﻈﻉﻊﻋﻌﻍﻎﻏﻐﻑﻒﻓﻔﻕﻖﻗﻘﻙﻚﻛﻜﻝﻞﻟﻠﻡﻢﻣﻤﻥﻦﻧﻨﻩﻪﻫﻬﻭﻮﻯﻰﻱﻲﻳﻴﻵﻶﻷﻸﻹﻺﻻﻼ﻽﻾﻿" >>,
       << 65408, "ﾀﾁﾂﾃﾄﾅﾆﾇﾈﾉﾊﾋﾌﾍﾎﾏﾐﾑﾒﾓﾔﾕﾖﾗﾘﾙﾚﾛﾜﾝﾞﾟﾠﾡﾢﾣﾤﾥﾦﾧﾨﾩﾪﾫﾬﾭﾮﾯﾰﾱﾲﾳﾴﾵﾶﾷﾸﾹﾺﾻﾼﾽﾾ﾿￀￁ￂￃￄￅￆￇ￈￉ￊￋￌￍￎￏ￐￑ￒￓￔￕￖￗ￘￙ￚￛￜ￝￞￟￠￡￢￣￤￥￦￧￨￩￪￫￬￭￮￯￰￱￲￳￴￵￶￷￸￹￺￻￼�￾￿" >> >>

\* ord(c)
Ord(c) ==
    LET Holds(r) == \E k \in 1..Len(CodeRuns[r][2]) : Char(CodeRuns[r][2], k) = c
        run == CodeRuns[CHOOSE r \in 1..Len(CodeRuns) : Holds(r)]
    IN  run[1] + (CHOOSE k \in 1..Len(run[2]) : Char(run[2], k) = c) - 1

\* the ranges of code points up to U+FFFF whose characters are not
\* printable (str.isprintable() is False)
NonPrintable ==
    << <<1, 31>>, <<127, 160>>, <<173, 173>>, <<888, 889>>, <<896, 899>>,
      <<907, 907>>, <<909, 909>>, <<930, 930>>, <<1328, 1328>>, <<1367, 1368>>,
      <<1419, 1420>>, <<1424, 1424>>, <<1480, 1487>>, <<1515, 1518>>,
      <<1525, 1541>>, <<1564, 1564>>, <<1757, 1757>>, <<1806, 1807>>,
      <<1867, 1868>>, <<1970, 1983>>, <<2043, 2044>>, <<2094, 2095>>,
      <<2111, 2111>>, <<2140, 2141>>, <<2143, 2143>>, <<2155, 2159>>,
      <<2191, 2199>>, <<2274, 2274>>, <<2436, 2436>>, <<2445, 2446>>,
      <<2449, 2450>>, <<2473, 2473>>, <<2481, 2481>>, <<2483, 2485>>,
      <<2490, 2491>>, <<2501, 2502>>, <<2505, 2506>>, <<2511, 2518>>,
      <<2520, 2523>>, <<2526, 2526>>, <<2532, 2533>>, <<2559, 2560>>,
      <<2564, 2564>>, <<2571, 2574>>, <<2577, 2578>>, <<2601, 2601>>,
      <<2609, 2609>>, <<2612, 2612>>, <<2615, 2615>>, <<2618, 2619>>,
      <<2621, 2621>>, <<2627, 2630>>, <<2633, 2634>>, <<2638, 2640>>,
      <<2642, 2648>>, <<2653, 2653>>, <<2655, 2661>>, <<2679, 2688>>,
      <<2692, 2692>>, <<2702, 2702>>, <<2706, 2706>>, <<2729, 2729>>,
      <<2737, 2737>>, <<2740, 2740>>, <<2746, 2747>>, <<2758, 2758>>,
      <<2762, 2762>>, <<2766, 2767>>, <<2769, 2783>>, <<2788, 2789>>,
      <<2802, 2808>>, <<2816, 2816>>, <<2820, 2820>>, <<2829, 2830>>,
      <<2833, 2834>>, <<2857, 2857>>, <<2865, 2865>>, <<2868, 2868>>,
      <<2874, 2875>>, <<2885, 2886>>, <<2889, 2890>>, <<2894, 2900>>,
      <<2904, 2907>>, <<2910, 2910>>, <<2916, 2917>>, <<2936, 2945>>,
      <<2948, 2948>>, <<2955, 2957>>, <<2961, 2961>>, <<2966, 2968>>,
      <<2971, 2971>>, <<2973, 2973>>, <<2976, 2978>>, <<2981, 2983>>,
      <<2987, 2989>>, <<3002, 3005>>, <<3011, 3013>>, <<3017, 3017>>,
      <<3022, 3023>>, <<3025, 3030>>, <<3032, 3045>>, <<3067, 3071>>,
      <<3085, 3085>>, <<3089, 3089>>, <<3113, 3113>>, <<3130, 3131>>,
      <<3141, 3141>>, <<3145, 3145>>, <<3150, 3156>>, <<3159, 3159>>,
      <<3163, 3164>>, <<3166, 3167>>, <<3172, 3173>>, <<3184, 3190>>,
      <<3213, 3213>>, <<3217, 3217>>, <<3241, 3241>>, <<3252, 3252>>,
      <<3258, 3259>>, <<3269, 3269>>, <<3273, 3273>>, <<3278, 3284>>,
      <<3287, 3292>>, <<3295, 3295>>, <<3300, 3301>>, <<3312, 3312>>,
      <<3315, 3327>>, <<3341, 3341>>, <<3345, 3345>>, <<3397, 3397>>,
      <<3401, 3401>>, <<3408, 3411>>, <<3428, 3429>>, <<3456, 3456>>,
      <<3460, 3460>>, <<3479, 3481>>, <<3506, 3506>>, <<3516, 3516>>,
      <<3518, 3519>>, <<3527, 3529>>, <<3531, 3534>>, <<3541, 3541>>,
      <<3543, 3543>>, <<3552, 3557>>, <<3568, 3569>>, <<3573, 3584>>,
      <<3643, 3646>>, <<3676, 3712>>, <<3715, 3715>>, <<3717, 3717>>,
      <<3723, 3723>>, <<3748, 3748>>, <<3750, 3750>>, <<3774, 3775>>,
      <<3781, 3781>>, <<3783, 3783>>, <<3790, 3791>>, <<3802, 3803>>,
      <<3808, 3839>>, <<3912, 3912>>, <<3949, 3952>>, <<3992, 3992>>,
      <<4029, 4029>>, <<4045, 4045>>, <<4059, 4095>>, <<4294, 4294>>,
      <<4296, 4300>>, <<4302, 4303>>, <<4681, 4681>>, <<4686, 4687>>,
      <<4695, 4695>>, <<4697, 4697>>, <<4702, 4703>>, <<4745, 4745>>,
      <<4750, 4751>>, <<4785, 4785>>, <<4790, 4791>>, <<4799, 4799>>,
      <<4801, 4801>>, <<4806, 4807>>, <<4823, 4823>>, <<4881, 4881>>,
      <<4886, 4887>>, <<4955, 4956>>, <<4989, 4991>>, <<5018, 5023>>,
      <<5110, 5111>>, <<5118, 5119>>, <<5760, 5760>>, <<5789, 5791>>,
      <<5881, 5887>>, <<5910, 5918>>, <<5943, 5951>>, <<5972, 5983>>,
      <<5997, 5997>>, <<6001, 6001>>, <<6004, 6015>>, <<6110, 6111>>,
      <<6122, 6127>>, <<6138, 6143>>, <<6158, 6158>>, <<6170, 6175>>,
      <<6265, 6271>>, <<6315, 6319>>, <<6390, 6399>>, <<6431, 6431>>,
      <<6444, 6447>>, <<6460, 6463>>, <<6465, 6467>>, <<6510, 6511>>,
      <<6517, 6527>>, <<6572, 6575>>, <<6602, 6607>>, <<6619, 6621>>,
      <<6684, 6685>>, <<6751, 6751>>, <<6781, 6782>>, <<6794, 6799>>,
      <<6810, 6815>>, <<6830, 6831>>, <<6863, 6911>>, <<6989, 6991>>,
      <<7039, 7039>>, <<7156, 7163>>, <<7224, 7226>>, <<7242, 7244>>,
      <<7305, 7311>>, <<7355, 7356>>, <<7368, 7375>>, <<7419, 7423>>,
      <<7958, 7959>>, <<7966, 7967>>, <<8006, 8007>>, <<8014, 8015>>,
      <<8024, 8024>>, <<8026, 8026>>, <<8028, 8028>>, <<8030, 8030>>,
      <<8062, 8063>>, <<8117, 8117>>, <<8133, 8133>>, <<8148, 8149>>,
      <<8156, 8156>>, <<8176, 8177>>, <<8181, 8181>>, <<8191, 8207>>,
      <<8232, 8239>>, <<8287, 8303>>, <<8306, 8307>>, <<8335, 8335>>,
      <<8349, 8351>>, <<8385, 8399>>, <<8433, 8447>>, <<8588, 8591>>,
      <<9255, 9279>>, <<9291, 9311>>, <<11124, 11125>>, <<11158, 11158>>,
      <<11508, 11512>>, <<11558, 11558>>, <<11560, 11564>>, <<11566, 11567>>,
      <<11624, 11630>>, <<11633, 11646>>, <<11671, 11679>>, <<11687, 11687>>,
      <<11695, 11695>>, <<11703, 11703>>, <<11711, 11711>>, <<11719, 11719>>,
      <<11727, 11727>>, <<11735, 11735>>, <<11743, 11743>>, <<11870, 11903>>,
      <<11930, 11930>>, <<12020, 12031>>, <<12246, 12271>>, <<12284, 12288>>,
      <<12352, 12352>>, <<12439, 12440>>, <<12544, 12548>>, <<12592, 12592>>,
      <<12687, 12687>>, <<12772, 12783>>, <<12831, 12831>>, <<42125, 42127>>,
      <<42183, 42191>>, <<42540, 42559>>, <<42744, 42751>>, <<42955, 42959>>,
      <<42962, 42962>>, <<42964, 42964>>, <<42970, 42993>>, <<43053, 43055>>,
      <<43066, 43071>>, <<43128, 43135>>, <<43206, 43213>>, <<43226, 43231>>,
      <<43348, 43358>>, <<43389, 43391>>, <<43470, 43470>>, <<43482, 43485>>,
      <<43519, 43519>>, <<43575, 43583>>, <<43598, 43599>>, <<43610, 43611>>,
      <<43715, 43738>>, <<43767, 43776>>, <<43783, 43784>>, <<43791, 43792>>,
      <<43799, 43807>>, <<43815, 43815>>, <<43823, 43823>>, <<43884, 43887>>,
      <<44014, 44015>>, <<44026, 44031>>, <<55204, 55215>>, <<55239, 55242>>,
      <<55292, 63743>>, <<64110, 64111>>, <<64218, 64255>>, <<64263, 64274>>,
      <<64280, 64284>>, <<64311, 64311>>, <<64317, 64317>>, <<64319, 64319>>,
      <<64322, 64322>>, <<64325, 64325>>, <<64451, 64466>>, <<64912, 64913>>,
      <<64968, 64974>>, <<64976, 65007>>, <<65050, 65055>>, <<65107, 65107>>,
      <<65127, 65127>>, <<65132, 65135>>, <<65141, 65141>>, <<65277, 65280>>,
      <<65471, 65473>>, <<65480, 65481>>, <<65488, 65489>>, <<65496, 65497>>,
      <<65501, 65503>>, <<65511, 65511>>, <<65519, 65531>>, <<65534, 65535>> >>

IsPrintable(n) ==
    ~\E k \in 1..Len(NonPrintable) : NonPrintable[k][1] <= n /\ n <= NonPrintable[k][2]

\* repr(s) of a string: in single quotes, or in double quotes when it holds
\* a single quote and no double quote; the quote and the backslash are
\* escaped, and so is every character that is not printable
PyRepr(s) ==
    LET quote == IF Contains(s, "'") /\ ~Contains(s, "\"") THEN "\"" ELSE "'"
        Hex2(n) == Char("0123456789abcdef", (n \div 16) + 1)
                   \o Char("0123456789abcdef", (n % 16) + 1)
        Escape(c) ==
            IF c = quote \/ c = "\\" THEN "\\" \o c
            ELSE IF c = "\t" THEN "\\t"
            ELSE IF c = "\n" THEN "\\n"
            ELSE IF c = "\r" THEN "\\r"
            ELSE LET n == Ord(c)
                 IN  IF n < 32 \/ n = 127 THEN "\\x" \o Hex2(n)
                     ELSE IF n < 127 \/ IsPrintable(n) THEN c
                     ELSE IF n <= 255 THEN "\\x" \o Hex2(n)
                     ELSE "\\u" \o Hex2(n \div 256) \o Hex2(n % 256)
    IN  quote \o Join([k \in 1..Len(s) |-> Escape(Char(s, k))], "") \o quote

-----------------------------------------------------------------------------
(* dict operations                                                         *)

DictKeys(d) == [i \in 1..Len(d) |-> d[i][1]]

KeySet(d) == {d[i][1] : i \in 1..Len(d)}

HasKey(d, k) == k \in KeySet(d)

\* d.get(k, default)
DictGet(d, k, default) ==
    IF HasKey(d, k)
    THEN d[CHOOSE i \in 1..Len(d) : d[i][1] = k][2]
    ELSE default

\* d[k] = v: a present key keeps its position, a new key goes last
DictSet(d, k, v) ==
    IF HasKey(d, k)
    THEN [i \in 1..Len(d) |-> IF d[i][1] = k THEN << k, v >> ELSE d[i]]
    ELSE Append(d, << k, v >>)

-----------------------------------------------------------------------------
(* Return values and exceptions                                            *)

Return(v) == [exc |-> "", msg |-> "", val |-> v]

Raise(e, m) == [exc |-> e, msg |-> m, val |-> None]

Raised(r) == r.exc # ""

-----------------------------------------------------------------------------
(* Configuration (the config module of each edition): the note types in    *)
(* declared order, each with its (field name, prefix, mandatory) mappings. *)

CommonOptional == << <<"Extra", "E:", FALSE>>, <<"More", "M:", FALSE>> >>

ChoiceMappings ==
    << <<"Question", "Q:", TRUE>>,
       <<"Choice 1", "C1:", TRUE>>,
       <<"Choice 2", "C2:", FALSE>>,
       <<"Choice 3", "C3:", FALSE>>,
       <<"Choice 4", "C4:", FALSE>>,
       <<"Choice 5", "C5:", FALSE>>,
       <<"Choice 6", "C6:", FALSE>>,
       <<"Choice 7", "C7:", FALSE>>,
       <<"Answer", "A:", TRUE>> >> \o CommonOptional

QAMappings ==
    << <<"Question", "Q:", TRUE>>, <<"Answer", "A:", TRUE>> >> \o CommonOptional

ClozeMappings == << <<"Text", "T:", TRUE>> >> \o CommonOptional

\* ankiops.config.NOTE_TYPES as a list of << name, field_mappings >> in
\* insertion order
AnkiOpsNoteTypes ==
    << <<"AnkiOpsQA", QAMappings>>,
       <<"AnkiOpsReversed",
         << <<"Front", "F:", TRUE>>, <<"Back", "B:", TRUE>> >> \o CommonOptional>>,
       <<"AnkiOpsCloze", ClozeMappings>>,
       <<"AnkiOpsInput",
         << <<"Question", "Q:", TRUE>>, <<"Input", "I:", TRUE>> >> \o CommonOptional>>,
       <<"AnkiOpsChoice", ChoiceMappings>> >>

\* deckops.config.NOTE_TYPES
DeckOpsNoteTypes ==
    << <<"DeckOpsQA", QAMappings>>,
       <<"DeckOpsCloze", ClozeMappings>>,
       <<"DeckOpsChoice", ChoiceMappings>> >>

NOTE_TYPES(ed) == IF ed = "ankiops" THEN AnkiOpsNoteTypes ELSE DeckOpsNoteTypes

\* NOTE_TYPES.get(name): the field mappings, or None for an unknown name
TypeConfig(ed, name) == DictGet(NOTE_TYPES(ed), name, None)

\* ALL_PREFIX_TO_FIELD: prefix -> field name over all note types, each
\* prefix once, in order of first appearance
RECURSIVE PrefixDict(_, _)
PrefixDict(mappings, acc) ==
    IF mappings = << >> THEN acc
    ELSE PrefixDict(Tail(mappings),
                    DictSet(acc, Head(mappings)[2], Head(mappings)[1]))

RECURSIVE AllMappings(_)
AllMappings(types) ==
    IF types = << >> THEN << >> ELSE Head(types)[2] \o AllMappings(Tail(types))

AnkiOpsPrefixes == PrefixDict(AllMappings(AnkiOpsNoteTypes), << >>)

DeckOpsPrefixes == PrefixDict(AllMappings(DeckOpsNoteTypes), << >>)

ALL_PREFIX_TO_FIELD(ed) == IF ed = "ankiops" THEN AnkiOpsPrefixes ELSE DeckOpsPrefixes

NOTE_SEPARATOR == "\n\n---\n\n"

QAName(ed) == IF ed = "ankiops" THEN "AnkiOpsQA" ELSE "DeckOpsQA"

ClozeName(ed) == IF ed = "ankiops" THEN "AnkiOpsCloze" ELSE "DeckOpsCloze"

ChoiceName(ed) == IF ed = "ankiops" THEN "AnkiOpsChoice" ELSE "DeckOpsChoice"

-----------------------------------------------------------------------------
(* Regular expressions                                                     *)

\* _CODE_FENCE_PATTERN.match(s): ^(BACKTICK{3}|~~~); TLA+ strings cannot hold a backtick, which is written ^ here
CODE_FENCE_PATTERN(s) == StartsWith(s, "^^^") \/ StartsWith(s, "~~~")

\* re.match of <!--\s*KEY\s*(\d+)\s*--> at the start of s.  The character
\* classes and the literals are disjoint, so greedy matching never
\* backtracks.  group is (\d+), stop the index of the last character matched.
IdCommentMatch(s, key) ==
    LET i1 == SkipSpace(s, 5)
        i2 == SkipSpace(s, i1 + Len(key))
        i3 == SkipDigits(s, i2)
        i4 == SkipSpace(s, i3)
        ok == /\ StartsWith(s, "<!--")
              /\ StartsWith(From(s, i1), key)
              /\ i3 > i2
              /\ StartsWith(From(s, i4), "-->")
    IN  IF ok
        THEN [matched |-> TRUE, group |-> SubSeq(s, i2, i3 - 1), stop |-> i4 + 2]
        ELSE [matched |-> FALSE, group |-> "", stop |-> 0]

NOTE_ID_PATTERN(s) == IdCommentMatch(s, "note_id:")

\* <!--\s*deck_id:\s*(\d+)\s*-->\n? : one newline after the marker is
\* consumed when present
DECK_ID_PATTERN(s) ==
    LET m == IdCommentMatch(s, "deck_id:")
    IN  IF m.matched /\ Char(s, m.stop + 1) = "\n"
        THEN [m EXCEPT !.stop = m.stop + 1]
        ELSE m

\* _CLOZE_PATTERN.search(s): \{\{c\d+:: anywhere in s
RECURSIVE CLOZE_PATTERN(_)
CLOZE_PATTERN(s) ==
    LET k == Find(s, "{{c", 1)
        j == SkipDigits(s, k + 3)
    IN  IF k = 0 THEN FALSE
        ELSE IF j > k + 3 /\ StartsWith(From(s, j), "::") THEN TRUE
        ELSE CLOZE_PATTERN(From(s, k + 1))

-----------------------------------------------------------------------------
(* Note type inference                                                     *)

\* the names of the mandatory fields of a list of field mappings
RequiredFields(mappings) ==
    {mappings[i][1] : i \in {j \in 1..Len(mappings) : mappings[j][3]}}

\* the loop of infer_note_type: the first note type other than skip whose
\* required fields are all keys, None when the loop ends without a return
RECURSIVE FirstRequiredSubset(_, _, _)
FirstRequiredSubset(types, keys, skip) ==
    IF types = << >> THEN None
    ELSE IF Head(types)[1] # skip /\ RequiredFields(Head(types)[2]) \subseteq keys
         THEN Some(Head(types)[1])
         ELSE FirstRequiredSubset(Tail(types), keys, skip)

\* the variant of the loop a careless edit would leave: AnkiOpsQA is not
\* skipped, so it is tried in its declared place
infer_note_type_QAInPlace(fields) ==
    LET hit == FirstRequiredSubset(NOTE_TYPES("ankiops"), KeySet(fields), "")
    IN  IF hit # None THEN Return(hit[1])
        ELSE Raise("ValueError", "Cannot determine note type from fields: "
                                 \o Join(DictKeys(fields), ", "))

\* the loop testing "required & keys" in place of "required <= keys"
RECURSIVE FirstRequiredOverlap(_, _, _)
FirstRequiredOverlap(types, keys, skip) ==
    IF types = << >> THEN None
    ELSE IF Head(types)[1] # skip /\ RequiredFields(Head(types)[2]) \cap keys # {}
         THEN Some(Head(types)[1])
         ELSE FirstRequiredOverlap(Tail(types), keys, skip)

\* infer_note_type satisfied with one required field of a note type
infer_note_type_AnyRequired(fields) ==
    LET types == NOTE_TYPES("ankiops")
        hit == FirstRequiredOverlap(types, KeySet(fields), "AnkiOpsQA")
    IN  IF hit # None THEN Return(hit[1])
        ELSE IF /\ HasKey(types, "AnkiOpsQA")
                /\ RequiredFields(DictGet(types, "AnkiOpsQA", << >>))
                       \cap KeySet(fields) # {}
             THEN Return("AnkiOpsQA")
             ELSE Raise("ValueError", "Cannot determine note type from fields: "
                                      \o Join(DictKeys(fields), ", "))

\* ankiops: infer_note_type(fields)
infer_note_type(fields) ==
    LET types == NOTE_TYPES("ankiops")
        hit == FirstRequiredSubset(types, KeySet(fields), "AnkiOpsQA")
    IN  IF hit # None THEN Return(hit[1])
        ELSE IF /\ HasKey(types, "AnkiOpsQA")
                /\ RequiredFields(DictGet(types, "AnkiOpsQA", << >>))
                       \subseteq KeySet(fields)
             THEN Return("AnkiOpsQA")
             ELSE Raise("ValueError", "Cannot determine note type from fields: "
                                      \o Join(DictKeys(fields), ", "))

\* deckops: _detect_note_type(fields)
detect_note_type(fields) ==
    IF HasKey(fields, "Choice 1") THEN Return("DeckOpsChoice")
    ELSE IF HasKey(fields, "Text") THEN Return("DeckOpsCloze")
    ELSE IF HasKey(fields, "Question") \/ HasKey(fields, "Answer")
         THEN Return("DeckOpsQA")
         ELSE Raise("ValueError",
                    "Cannot determine note type: no Q:, A:, T:, or C1: field found. "
                    \o "Every note must have at least one unique field prefix.")

InferType(ed, fields) ==
    IF ed = "ankiops" THEN infer_note_type(fields) ELSE detect_note_type(fields)

-----------------------------------------------------------------------------
(* parse_note_block                                                        *)

\* line.startswith(prefix + " ") or line == prefix
LineHasPrefix(line, prefix) == StartsWith(line, prefix \o " ") \/ line = prefix

\* the for loop over ALL_PREFIX_TO_FIELD.items(): the index of the first
\* prefix the line matches, 0 when the loop ends without a match
FirstPrefix(ed, line) ==
    LET table == ALL_PREFIX_TO_FIELD(ed)
        hits == {k \in 1..Len(table) : LineHasPrefix(line, table[k][1])}
    IN  IF hits = {} THEN 0 ELSE CHOOSE k \in hits : \A h \in hits : k <= h

\* the locals of parse_note_block before the first line
NewFrame(lines) ==
    [lines |-> lines, i |-> 1,
     note_id |-> None, fields |-> << >>,
     current_field |-> None, current_content |-> << >>,
     in_code_block |-> FALSE, seen |-> {},
     raised |-> Return(None)]

\* fields[current_field] = "\n".join(current_content).strip()
FlushField(f) ==
    IF f.current_field # None
    THEN DictSet(f.fields, f.current_field[1], Strip(Join(f.current_content, "\n")))
    ELSE f.fields

\* if current_field: current_content.append(line)
AppendToField(f, line) ==
    IF f.current_field # None
    THEN [f EXCEPT !.current_content = Append(@, line)]
    ELSE f

DuplicateMessage(prefix, note_id) ==
    "Duplicate field '" \o prefix \o "' "
    \o (IF note_id # None /\ note_id[1] # 0
        THEN "in note_id: " \o IntToStr(note_id[1])
        ELSE "in this note")
    \o ". Did you forget to end the previous note with '\\n\\n---\\n\\n' "
    \o "or is there an accidental duplicate prefix?"

\* a matched prefix with the duplicate check left out: the field is reopened
\* and its earlier content overwritten at the next flush
OpenField_NoDuplicateCheck(ed, f, line, k) ==
    LET prefix == ALL_PREFIX_TO_FIELD(ed)[k][1]
        field_name == ALL_PREFIX_TO_FIELD(ed)[k][2]
    IN  [f EXCEPT !.seen = @ \cup {field_name},
                  !.fields = FlushField(f),
                  !.current_content =
                      IF StartsWith(line, prefix \o " ")
                      THEN << From(line, Len(prefix) + 2) >> ELSE << >>,
                  !.current_field = Some(field_name)]

\* the body of "if line.startswith(prefix + ' ') or line == prefix" for the
\* k-th prefix of the table
OpenField(ed, f, line, k) ==
    LET prefix == ALL_PREFIX_TO_FIELD(ed)[k][1]
        field_name == ALL_PREFIX_TO_FIELD(ed)[k][2]
    IN  IF field_name \in f.seen
        THEN [f EXCEPT !.raised =
                  Raise("ValueError", DuplicateMessage(prefix, f.note_id))]
        ELSE [f EXCEPT !.seen = @ \cup {field_name},
                       !.fields = FlushField(f),
                       !.current_content =
                           IF StartsWith(line, prefix \o " ")
                           THEN << From(line, Len(prefix) + 2) >> ELSE << >>,
                       !.current_field = Some(field_name)]

\* the loop body with the "if in_code_block" branch left out
ParseLine_NoFenceGuard(ed, f, line) ==
    LET id_match == NOTE_ID_PATTERN(line)
        k == FirstPrefix(ed, line)
    IN  IF CODE_FENCE_PATTERN(LStrip(line))
        THEN AppendToField([f EXCEPT !.in_code_block = ~@], line)
        ELSE IF id_match.matched
        THEN [f EXCEPT !.note_id = Some(DigitsToInt(id_match.group))]
        ELSE IF k # 0 THEN OpenField(ed, f, line, k)
        ELSE AppendToField(f, line)

\* the loop body with the note-id test placed after the "if in_code_block"
\* branch
ParseLine_IdAfterFence(ed, f, line) ==
    LET stripped == LStrip(line)
        id_match == NOTE_ID_PATTERN(line)
        k == FirstPrefix(ed, line)
    IN  IF CODE_FENCE_PATTERN(stripped)
        THEN AppendToField([f EXCEPT !.in_code_block = ~@], line)
        ELSE IF f.in_code_block THEN AppendToField(f, line)
        ELSE IF id_match.matched
        THEN [f EXCEPT !.note_id = Some(DigitsToInt(id_match.group))]
        ELSE IF k # 0 THEN OpenField(ed, f, line, k)
        ELSE AppendToField(f, line)

\* one iteration of "for line in lines", on the locals f
ParseLine(ed, f, line) ==
    LET stripped == LStrip(line)
        id_match == NOTE_ID_PATTERN(line)
        k == FirstPrefix(ed, line)
    IN  IF CODE_FENCE_PATTERN(stripped)
        THEN AppendToField([f EXCEPT !.in_code_block = ~@], line)
        ELSE IF id_match.matched
        THEN [f EXCEPT !.note_id = Some(DigitsToInt(id_match.group))]
        ELSE IF f.in_code_block THEN AppendToField(f, line)
        ELSE IF k # 0 THEN OpenField(ed, f, line, k)
        ELSE AppendToField(f, line)

\* the statements after the loop: flush the open field, infer the type,
\* build the ParsedNote
FinishParse(ed, f, block) ==
    LET fields == FlushField(f)
        note_type == InferType(ed, fields)
    IN  IF Raised(note_type) THEN note_type
        ELSE Return([note_id |-> f.note_id, note_type |-> note_type.val,
                     fields |-> fields, raw_content |-> block])

RECURSIVE RunLoop(_, _)
RunLoop(ed, f) ==
    IF Raised(f.raised) \/ f.i > Len(f.lines) THEN f
    ELSE RunLoop(ed, [ParseLine(ed, f, f.lines[f.i]) EXCEPT !.i = @ + 1])

\* parse_note_block(block) as one call
parse_note_block(ed, block) ==
    LET f == RunLoop(ed, NewFrame(Split(Strip(block), "\n")))
    IN  IF Raised(f.raised) THEN f.raised ELSE FinishParse(ed, f, block)

-----------------------------------------------------------------------------
(* validate_note                                                           *)

\* the characters of s other than c
RECURSIVE Without(_, _)
Without(s, c) ==
    IF s = "" THEN ""
    ELSE (IF Char(s, 1) = c THEN "" ELSE Char(s, 1)) \o Without(From(s, 2), c)

\* the whitespace int() skips around a number: that of str.strip() without
\* the separators FS, GS, RS and US
IsIntSpace(c) == IsSpace(c) /\ c \notin {"", "", "", ""}

RECURSIVE SkipIntSpace(_, _)
SkipIntSpace(s, i) ==
    IF i <= Len(s) /\ IsIntSpace(Char(s, i)) THEN SkipIntSpace(s, i + 1) ELSE i

RECURSIVE BackIntSpace(_, _)
BackIntSpace(s, i) ==
    IF i >= 1 /\ IsIntSpace(Char(s, i)) THEN BackIntSpace(s, i - 1) ELSE i

\* int(s) of a str: surrounding whitespace, one optional sign, decimal
\* digits with single underscores allowed between them.  None stands for
\* the ValueError.
PyInt(s) ==
    LET t == SubSeq(s, SkipIntSpace(s, 1), BackIntSpace(s, Len(s)))
        signed == StartsWith(t, "-") \/ StartsWith(t, "+")
        body == IF signed THEN From(t, 2) ELSE t
        wellFormed ==
            /\ body # ""
            /\ \A k \in 1..Len(body) : IsDigit(Char(body, k)) \/ Char(body, k) = "_"
            /\ Char(body, 1) # "_"
            /\ Char(body, Len(body)) # "_"
            /\ ~Contains(body, "__")
        magnitude == DigitsToInt(Without(body, "_"))
    IN  IF ~wellFormed THEN None
        ELSE IF StartsWith(t, "-") THEN Some(0 - magnitude)
        ELSE Some(magnitude)

\* the loop over field_mappings testing "field_name not in note.fields"
MissingErrors_AbsentOnly(mappings, fields) ==
    LET Emit(m) ==
            IF m[3] /\ ~HasKey(fields, m[1])
            THEN << "Missing mandatory field '" \o m[1] \o "' (" \o m[2] \o ")" >>
            ELSE << >>
        F[k \in 0..Len(mappings)] ==
            IF k = 0 THEN << >> ELSE F[k - 1] \o Emit(mappings[k])
    IN  F[Len(mappings)]

\* the errors of the loop over field_mappings
MissingErrors(mappings, fields) ==
    LET Emit(m) ==
            IF m[3] /\ DictGet(fields, m[1], "") = ""
            THEN << "Missing mandatory field '" \o m[1] \o "' (" \o m[2] \o ")" >>
            ELSE << >>
        F[k \in 0..Len(mappings)] ==
            IF k = 0 THEN << >> ELSE F[k - 1] \o Emit(mappings[k])
    IN  F[Len(mappings)]

ClozeMessage(ed) ==
    ClozeName(ed) \o " note must contain cloze syntax "
    \o "(e.g. {{c1::answer}}) in the T: field"

\* the cloze rule without the test that the text is not empty
ClozeErrors_EmptyTextToo(ed, fields) ==
    IF ~CLOZE_PATTERN(DictGet(fields, "Text", ""))
    THEN << ClozeMessage(ed) >> ELSE << >>

\* the body of "if note.note_type == '...Cloze'"
ClozeErrors(ed, fields) ==
    LET text == DictGet(fields, "Text", "")
    IN  IF text # "" /\ ~CLOZE_PATTERN(text)
        THEN << ClozeMessage(ed) >> ELSE << >>

IntegersMessage(ed) ==
    ChoiceName(ed) \o " answer (A:) must contain integers "
    \o "(e.g. '1' for single choice or '1, 2, 3' for multiple choice)"

RangeMessage(ed, n, max_choice) ==
    ChoiceName(ed) \o " answer contains '" \o IntToStr(n) \o "' but only "
    \o IntToStr(max_choice) \o " choice(s) are provided"
    \o (IF ed = "deckops"
        THEN " (C1: through C" \o IntToStr(max_choice) \o ":)" ELSE "")

\* the highest i in range(1, 8) whose "Choice i" field is not empty, 0 if none
MaxChoice(fields) ==
    LET given == {i \in 1..7 : DictGet(fields, "Choice " \o IntToStr(i), "") # ""}
    IN  IF given = {} THEN 0 ELSE CHOOSE i \in given : \A j \in given : j <= i

\* the answer check with the upper limit off by one: n > max_choice + 1
ChoiceErrors_UpperOffByOne(ed, fields) ==
    LET answer == DictGet(fields, "Answer", "")
        pieces == Split(IF ed = "deckops" THEN Strip(answer) ELSE answer, ",")
        parts == [k \in 1..Len(pieces) |-> Strip(pieces[k])]
        ints == [k \in 1..Len(parts) |-> PyInt(parts[k])]
        max_choice == MaxChoice(fields)
        bad == {k \in 1..Len(ints) : ints[k][1] < 1 \/ ints[k][1] > max_choice + 1}
    IN  IF answer = "" THEN << >>
        ELSE IF \E k \in 1..Len(ints) : ints[k] = None
        THEN << IntegersMessage(ed) >>
        ELSE IF bad = {} THEN << >>
        ELSE << RangeMessage(ed, ints[CHOOSE k \in bad : \A j \in bad : k <= j][1],
                             max_choice) >>

\* ankiops: _validate_choice_answers(note); deckops: the body of
\* "if note.note_type == 'DeckOpsChoice'".  Both report the first answer out
\* of range only.
ChoiceErrors(ed, fields) ==
    LET answer == DictGet(fields, "Answer", "")
        pieces == Split(IF ed = "deckops" THEN Strip(answer) ELSE answer, ",")
        parts == [k \in 1..Len(pieces) |-> Strip(pieces[k])]
        ints == [k \in 1..Len(parts) |-> PyInt(parts[k])]
        max_choice == MaxChoice(fields)
        bad == {k \in 1..Len(ints) : ints[k][1] < 1 \/ ints[k][1] > max_choice}
    IN  IF answer = "" THEN << >>
        ELSE IF \E k \in 1..Len(ints) : ints[k] = None
        THEN << IntegersMessage(ed) >>
        ELSE IF bad = {} THEN << >>
        ELSE << RangeMessage(ed, ints[CHOOSE k \in bad : \A j \in bad : k <= j][1],
                             max_choice) >>

\* validate_note returning as soon as a mandatory field is missing
validate_note_StopAtMissing(ed, note) ==
    LET note_config == TypeConfig(ed, note.note_type)
    IN  IF note_config = None
        THEN << "Unknown note type '" \o note.note_type \o "'" >>
        ELSE IF MissingErrors(note_config, note.fields) # << >>
        THEN MissingErrors(note_config, note.fields)
        ELSE (IF note.note_type = ClozeName(ed)
              THEN ClozeErrors(ed, note.fields) ELSE << >>)
             \o (IF note.note_type = ChoiceName(ed)
                 THEN ChoiceErrors(ed, note.fields) ELSE << >>)

\* validate_note(note): the list of error messages
validate_note(ed, note) ==
    LET note_config == TypeConfig(ed, note.note_type)
    IN  IF note_config = None
        THEN << "Unknown note type '" \o note.note_type \o "'" >>
        ELSE MissingErrors(note_config, note.fields)
             \o (IF note.note_type = ClozeName(ed)
                 THEN ClozeErrors(ed, note.fields) ELSE << >>)
             \o (IF note.note_type = ChoiceName(ed)
                 THEN ChoiceErrors(ed, note.fields) ELSE << >>)

-----------------------------------------------------------------------------
(* Files: extract_deck_id, FileState.from_file, validate_markdown_ids      *)

\* extract_deck_id(content): the pair (deck_id, remaining)
extract_deck_id(content) ==
    LET match == DECK_ID_PATTERN(content)
    IN  IF match.matched
        THEN << Some(DigitsToInt(match.group)), From(content, match.stop + 1) >>
        ELSE << None, content >>

FileState(file_path, raw_content, deck_id, parsed_notes) ==
    [file_path |-> file_path, raw_content |-> raw_content, deck_id |-> deck_id,
     parsed_notes |-> parsed_notes]

\* from_file without the "if block.strip()" filter of the comprehension
from_file_NoBlankFilter(file_path, raw_content) ==
    LET extracted == extract_deck_id(raw_content)
        blocks == Split(extracted[2], NOTE_SEPARATOR)
        parsed == [k \in 1..Len(blocks) |-> parse_note_block("ankiops", blocks[k])]
        failing == {k \in 1..Len(parsed) : Raised(parsed[k])}
    IN  IF failing # {}
        THEN parsed[CHOOSE k \in failing : \A j \in failing : k <= j]
        ELSE Return(FileState(file_path, raw_content, extracted[1],
                              [k \in 1..Len(parsed) |-> parsed[k].val]))

\* FileState.from_file(file_path), raw_content being the text read from the
\* file: the list comprehension parses the kept blocks in order and the
\* first parse error leaves the call
from_file(file_path, raw_content) ==
    LET extracted == extract_deck_id(raw_content)
        blocks == SelectSeq(Split(extracted[2], NOTE_SEPARATOR),
                            LAMBDA block : Strip(block) # "")
        parsed == [k \in 1..Len(blocks) |-> parse_note_block("ankiops", blocks[k])]
        failing == {k \in 1..Len(parsed) : Raised(parsed[k])}
    IN  IF failing # {}
        THEN parsed[CHOOSE k \in failing : \A j \in failing : k <= j]
        ELSE Return(FileState(file_path, raw_content, extracted[1],
                              [k \in 1..Len(parsed) |-> parsed[k].val]))

\* file_path.name, the path given as Path(path): empty components and "."
\* components are no parts of the path, and the name is the last part, ""
\* when there is none (".", "/")
PathName(path) ==
    LET parts == SelectSeq(Split(path, "/"), LAMBDA part : part # "" /\ part # ".")
    IN  IF parts = << >> THEN "" ELSE parts[Len(parts)]

\* note_identifier(note): a note id of 0 is false and gives the first line
note_identifier(note) ==
    IF note.note_id # None /\ note.note_id[1] # 0
    THEN "note_id: " \o IntToStr(note.note_id[1])
    ELSE LET first_line == Split(Strip(note.raw_content), "\n")[1]
             shown == IF Len(first_line) < 60 THEN Len(first_line) ELSE 60
         IN  "'" \o SubSeq(first_line, 1, shown) \o "...'"

InvalidID(id_value, id_type, file_path, context) ==
    [id_value |-> id_value, id_type |-> id_type, file_path |-> file_path,
     context |-> context]

\* the records one iteration of "for fs in file_states" appends
FileInvalidIDs(fs, valid_deck_ids, valid_note_ids) ==
    LET bad == SelectSeq(fs.parsed_notes,
                         LAMBDA note : /\ note.note_id # None
                                       /\ note.note_id[1] \notin valid_note_ids)
    IN  (IF fs.deck_id # None /\ fs.deck_id[1] \notin valid_deck_ids
         THEN << InvalidID(fs.deck_id[1], "deck_id", fs.file_path,
                           "deck_id in " \o PathName(fs.file_path)) >>
         ELSE << >>)
        \o [k \in 1..Len(bad) |->
               InvalidID(bad[k].note_id[1], "note_id", fs.file_path,
                         note_identifier(bad[k]) \o " in " \o PathName(fs.file_path))]

\* the records with an id already reported left out
RECURSIVE Deduplicated(_)
Deduplicated(records) ==
    IF records = << >> THEN << >>
    ELSE LET earlier == Deduplicated(SubSeq(records, 1, Len(records) - 1))
             last == records[Len(records)]
         IN  IF \E k \in 1..Len(earlier) :
                    /\ earlier[k].id_value = last.id_value
                    /\ earlier[k].id_type = last.id_type
             THEN earlier ELSE Append(earlier, last)

\* validate_markdown_ids reporting every id once only
validate_markdown_ids_Deduplicated(file_states, valid_deck_ids, valid_note_ids) ==
    LET F[k \in 0..Len(file_states)] ==
            IF k = 0 THEN << >>
            ELSE F[k - 1] \o FileInvalidIDs(file_states[k], valid_deck_ids,
                                            valid_note_ids)
    IN  Deduplicated(F[Len(file_states)])

\* validate_markdown_ids(file_states, valid_deck_ids, valid_note_ids)
validate_markdown_ids(file_states, valid_deck_ids, valid_note_ids) ==
    LET F[k \in 0..Len(file_states)] ==
            IF k = 0 THEN << >>
            ELSE F[k - 1] \o FileInvalidIDs(file_states[k], valid_deck_ids,
                                            valid_note_ids)
    IN  F[Len(file_states)]

-----------------------------------------------------------------------------
(* format_note                                                             *)

\* converter.convert(raw): the converter is a collaborator handed in by the
\* caller.  "identity" returns its input; "html" stands for an HTML to
\* markdown converter, which can turn markup that is not empty into empty
\* text.
Convert(converter, raw) ==
    IF converter = "identity" THEN raw
    ELSE Strip(Replace(raw, "<br>", "\n"))

\* the lines the loop over field_mappings appends, with the test on
\* field_data replaced by a test on the raw value
FieldLines_RawValueTest(mappings, fields, converter) ==
    LET Emit(m) ==
            LET field_data == DictGet(fields, m[1], None)
                md == Convert(converter, DictGet(field_data, "value", ""))
            IN  IF DictGet(field_data, "value", "") # "" /\ (md # "" \/ m[3])
                THEN << m[2] \o " " \o md >> ELSE << >>
        F[k \in 0..Len(mappings)] ==
            IF k = 0 THEN << >> ELSE F[k - 1] \o Emit(mappings[k])
    IN  F[Len(mappings)]

\* the lines the loop over field_mappings appends, written without the
\* space between prefix and text
FieldLines_NoSpace(mappings, fields, converter) ==
    LET Emit(m) ==
            LET field_data == DictGet(fields, m[1], None)
                md == Convert(converter, DictGet(field_data, "value", ""))
            IN  IF field_data # << >> /\ (md # "" \/ m[3])
                THEN << m[2] \o md >> ELSE << >>
        F[k \in 0..Len(mappings)] ==
            IF k = 0 THEN << >> ELSE F[k - 1] \o Emit(mappings[k])
    IN  F[Len(mappings)]

\* the lines the loop over field_mappings appends: field_data is a dict (or
\* None), true when it is not empty
FieldLines(mappings, fields, converter) ==
    LET Emit(m) ==
            LET field_data == DictGet(fields, m[1], None)
                md == Convert(converter, DictGet(field_data, "value", ""))
            IN  IF field_data # << >> /\ (md # "" \/ m[3])
                THEN << m[2] \o " " \o md >> ELSE << >>
        F[k \in 0..Len(mappings)] ==
            IF k = 0 THEN << >> ELSE F[k - 1] \o Emit(mappings[k])
    IN  F[Len(mappings)]

\* format_note(note_id, note, converter, note_type); NOTE_TYPES[note_type]
\* raises KeyError(note_type) for an unknown type, whose text is
\* repr(note_type)
format_note(ed, note_id, note, converter, note_type) ==
    IF ~HasKey(NOTE_TYPES(ed), note_type)
    THEN Raise("KeyError", PyRepr(note_type))
    ELSE Return(Join(<< "<!-- note_id: " \o IntToStr(note_id) \o " -->" >>
                     \o FieldLines(TypeConfig(ed, note_type), note.fields, converter),
                     "\n"))

-----------------------------------------------------------------------------
(* convert_fields_to_html                                                  *)

\* converter.convert(content) of the markdown to HTML converter the caller
\* hands in.  "identity" returns its input; "breaks" stands for a converter
\* that writes line ends as <br> and gives empty HTML for blank markdown.
ConvertToHtml(converter, content) ==
    IF converter = "identity" THEN content
    ELSE IF Strip(content) = "" THEN ""
    ELSE Replace(content, "\n", "<br>")

\* dict.setdefault(k, v): a present key keeps its value
SetDefault(d, k, v) == IF HasKey(d, k) THEN d ELSE Append(d, << k, v >>)

\* the loop over the field mappings written with html[field_name] = ""
FillFields_Overwrite(html, mappings) ==
    LET F[k \in 0..Len(mappings)] ==
            IF k = 0 THEN html ELSE DictSet(F[k - 1], mappings[k][1], "")
    IN  F[Len(mappings)]

\* the loop over the field mappings: html.setdefault(field_name, "")
FillFields(html, mappings) ==
    LET F[k \in 0..Len(mappings)] ==
            IF k = 0 THEN html ELSE SetDefault(F[k - 1], mappings[k][1], "")
    IN  F[Len(mappings)]

\* convert_fields_to_html(fields, converter, note_type); an unknown note
\* type has no field mappings
convert_fields_to_html(fields, converter, note_type) ==
    LET html == [k \in 1..Len(fields) |->
                    << fields[k][1], ConvertToHtml(converter, fields[k][2]) >>]
    IN  IF note_type # ""
        THEN FillFields(html, DictGet(NOTE_TYPES("ankiops"), note_type, << >>))
        ELSE html

-----------------------------------------------------------------------------
(* sanitize_filename                                                       *)

\* A Python string that may hold characters a string of this module cannot
\* is the sequence of its characters: a character that can be written is
\* itself, a string of length 1, and any other is "U+" followed by its code
\* point in four hexadecimal digits ("U+0178").
Chars(s) == [k \in 1..Len(s) |-> Char(s, k)]

\* the characters that str.upper() changes, each with the characters it
\* becomes (one, or more: the sharp s becomes "S", "S").  The table holds
\* every character a string of this module can hold and upper() changes.
UpperPairs ==
    {
      << "a", << "A" >> >>, << "b", << "B" >> >>, << "c", << "C" >> >>,
      << "d", << "D" >> >>, << "e", << "E" >> >>, << "f", << "F" >> >>,
      << "g", << "G" >> >>, << "h", << "H" >> >>, << "i", << "I" >> >>,
      << "j", << "J" >> >>, << "k", << "K" >> >>, << "l", << "L" >> >>,
      << "m", << "M" >> >>, << "n", << "N" >> >>, << "o", << "O" >> >>,
      << "p", << "P" >> >>, << "q", << "Q" >> >>, << "r", << "R" >> >>,
      << "s", << "S" >> >>, << "t", << "T" >> >>, << "u", << "U" >> >>,
      << "v", << "V" >> >>, << "w", << "W" >> >>, << "x", << "X" >> >>,
      << "y", << "Y" >> >>, << "z", << "Z" >> >>, << "µ", << "Μ" >> >>,
      << "ß", << "S", "S" >> >>, << "à", << "À" >> >>, << "á", << "Á" >> >>,
      << "â", << "Â" >> >>, << "ã", << "Ã" >> >>, << "ä", << "Ä" >> >>,
      << "å", << "Å" >> >>, << "æ", << "Æ" >> >>, << "ç", << "Ç" >> >>,
      << "è", << "È" >> >>, << "é", << "É" >> >>, << "ê", << "Ê" >> >>,
      << "ë", << "Ë" >> >>, << "ì", << "Ì" >> >>, << "í", << "Í" >> >>,
      << "î", << "Î" >> >>, << "ï", << "Ï" >> >>, << "ð", << "Ð" >> >>,
      << "ñ", << "Ñ" >> >>, << "ò", << "Ò" >> >>, << "ó", << "Ó" >> >>,
      << "ô", << "Ô" >> >>, << "õ", << "Õ" >> >>, << "ö", << "Ö" >> >>,
      << "ø", << "Ø" >> >>, << "ù", << "Ù" >> >>, << "ú", << "Ú" >> >>,
      << "û", << "Û" >> >>, << "ü", << "Ü" >> >>, << "ý", << "Ý" >> >>,
      << "þ", << "Þ" >> >>, << "ÿ", << "U+0178" >> >>,
      << "ƀ", << "U+0243" >> >>, << "ƃ", << "Ƃ" >> >>, << "ƅ", << "Ƅ" >> >>,
      << "ƈ", << "Ƈ" >> >>, << "ƌ", << "Ƌ" >> >>, << "ƒ", << "Ƒ" >> >>,
      << "ƕ", << "Ƕ" >> >>, << "ƙ", << "Ƙ" >> >>, << "ƚ", << "U+023D" >> >>,
      << "ƞ", << "U+0220" >> >>, << "ơ", << "Ơ" >> >>, << "ƣ", << "Ƣ" >> >>,
      << "ƥ", << "Ƥ" >> >>, << "ƨ", << "Ƨ" >> >>, << "ƭ", << "Ƭ" >> >>,
      << "ư", << "Ư" >> >>, << "ƴ", << "Ƴ" >> >>, << "ƶ", << "Ƶ" >> >>,
      << "ƹ", << "Ƹ" >> >>, << "ƽ", << "Ƽ" >> >>, << "ƿ", << "Ƿ" >> >>,
      << "ǅ", << "Ǆ" >> >>, << "ǆ", << "Ǆ" >> >>, << "ǈ", << "Ǉ" >> >>,
      << "ǉ", << "Ǉ" >> >>, << "ǋ", << "Ǌ" >> >>, << "ǌ", << "Ǌ" >> >>,
      << "ǎ", << "Ǎ" >> >>, << "ǐ", << "Ǐ" >> >>, << "ǒ", << "Ǒ" >> >>,
      << "ǔ", << "Ǔ" >> >>, << "ǖ", << "Ǖ" >> >>, << "ǘ", << "Ǘ" >> >>,
      << "ǚ", << "Ǚ" >> >>, << "ǜ", << "Ǜ" >> >>, << "ǝ", << "Ǝ" >> >>,
      << "ǟ", << "Ǟ" >> >>, << "ǡ", << "Ǡ" >> >>, << "ǣ", << "Ǣ" >> >>,
      << "ǥ", << "Ǥ" >> >>, << "ǧ", << "Ǧ" >> >>, << "ǩ", << "Ǩ" >> >>,
      << "ǫ", << "Ǫ" >> >>, << "ǭ", << "Ǭ" >> >>, << "ǯ", << "Ǯ" >> >>,
      << "ǰ", << "J", "U+030C" >> >>, << "ǲ", << "Ǳ" >> >>,
      << "ǳ", << "Ǳ" >> >>, << "ǵ", << "Ǵ" >> >>, << "ǹ", << "Ǹ" >> >>,
      << "ǻ", << "Ǻ" >> >>, << "ǽ", << "Ǽ" >> >>, << "ǿ", << "Ǿ" >> >>,
      << "ʀ", << "Ʀ" >> >>, << "ʂ", << "Ʂ" >> >>, << "ʃ", << "Ʃ" >> >>,
      << "ʇ", << "Ʇ" >> >>, << "ʈ", << "Ʈ" >> >>, << "ʉ", << "U+0244" >> >>,
      << "ʊ", << "Ʊ" >> >>, << "ʋ", << "Ʋ" >> >>, << "ʌ", << "U+0245" >> >>,
      << "ʒ", << "Ʒ" >> >>, << "ʝ", << "Ʝ" >> >>, << "ʞ", << "Ʞ" >> >>,
      << "ΐ", << "Ι", "U+0308", "U+0301" >> >>, << "ά", << "Ά" >> >>,
      << "έ", << "Έ" >> >>, << "ή", << "Ή" >> >>, << "ί", << "Ί" >> >>,
      << "ΰ", << "Υ", "U+0308", "U+0301" >> >>, << "α", << "Α" >> >>,
      << "β", << "Β" >> >>, << "γ", << "Γ" >> >>, << "δ", << "Δ" >> >>,
      << "ε", << "Ε" >> >>, << "ζ", << "Ζ" >> >>, << "η", << "Η" >> >>,
      << "θ", << "Θ" >> >>, << "ι", << "Ι" >> >>, << "κ", << "Κ" >> >>,
      << "λ", << "Λ" >> >>, << "μ", << "Μ" >> >>, << "ν", << "Ν" >> >>,
      << "ξ", << "Ξ" >> >>, << "ο", << "Ο" >> >>, << "π", << "Π" >> >>,
      << "ρ", << "Ρ" >> >>, << "ς", << "Σ" >> >>, << "σ", << "Σ" >> >>,
      << "τ", << "Τ" >> >>, << "υ", << "Υ" >> >>, << "φ", << "Φ" >> >>,
      << "χ", << "Χ" >> >>, << "ψ", << "Ψ" >> >>, << "ω", << "Ω" >> >>,
      << "ϊ", << "Ϊ" >> >>, << "ϋ", << "Ϋ" >> >>, << "ό", << "Ό" >> >>,
      << "ύ", << "Ύ" >> >>, << "ώ", << "Ώ" >> >>, << "ϐ", << "Β" >> >>,
      << "ϑ", << "Θ" >> >>, << "ϕ", << "Φ" >> >>, << "ϖ", << "Π" >> >>,
      << "ϗ", << "Ϗ" >> >>, << "ϙ", << "Ϙ" >> >>, << "ϛ", << "Ϛ" >> >>,
      << "ϝ", << "Ϝ" >> >>, << "ϟ", << "Ϟ" >> >>, << "ϡ", << "Ϡ" >> >>,
      << "ϣ", << "Ϣ" >> >>, << "ϥ", << "Ϥ" >> >>, << "ϧ", << "Ϧ" >> >>,
      << "ϩ", << "Ϩ" >> >>, << "ϫ", << "Ϫ" >> >>, << "ϭ", << "Ϭ" >> >>,
      << "ϯ", << "Ϯ" >> >>, << "ϰ", << "Κ" >> >>, << "ϱ", << "Ρ" >> >>,
      << "ϲ", << "Ϲ" >> >>, << "ϳ", << "U+037F" >> >>, << "ϵ", << "Ε" >> >>,
      << "ϸ", << "Ϸ" >> >>, << "ϻ", << "Ϻ" >> >>, << "ҁ", << "Ҁ" >> >>,
      << "ҋ", << "Ҋ" >> >>, << "ҍ", << "Ҍ" >> >>, << "ҏ", << "Ҏ" >> >>,
      << "ґ", << "Ґ" >> >>, << "ғ", << "Ғ" >> >>, << "ҕ", << "Ҕ" >> >>,
      << "җ", << "Җ" >> >>, << "ҙ", << "Ҙ" >> >>, << "қ", << "Қ" >> >>,
      << "ҝ", << "Ҝ" >> >>, << "ҟ", << "Ҟ" >> >>, << "ҡ", << "Ҡ" >> >>,
      << "ң", << "Ң" >> >>, << "ҥ", << "Ҥ" >> >>, << "ҧ", << "Ҧ" >> >>,
      << "ҩ", << "Ҩ" >> >>, << "ҫ", << "Ҫ" >> >>, << "ҭ", << "Ҭ" >> >>,
      << "ү", << "Ү" >> >>, << "ұ", << "Ұ" >> >>, << "ҳ", << "Ҳ" >> >>,
      << "ҵ", << "Ҵ" >> >>, << "ҷ", << "Ҷ" >> >>, << "ҹ", << "Ҹ" >> >>,
      << "һ", << "Һ" >> >>, << "ҽ", << "Ҽ" >> >>, << "ҿ", << "Ҿ" >> >>,
      << "ӂ", << "Ӂ" >> >>, << "ӄ", << "Ӄ" >> >>, << "ӆ", << "Ӆ" >> >>,
      << "ӈ", << "Ӈ" >> >>, << "ӊ", << "Ӊ" >> >>, << "ӌ", << "Ӌ" >> >>,
      << "ӎ", << "Ӎ" >> >>, << "ӏ", << "Ӏ" >> >>, << "ӑ", << "Ӑ" >> >>,
      << "ӓ", << "Ӓ" >> >>, << "ӕ", << "Ӕ" >> >>, << "ӗ", << "Ӗ" >> >>,
      << "ә", << "Ә" >> >>, << "ӛ", << "Ӛ" >> >>, << "ӝ", << "Ӝ" >> >>,
      << "ӟ", << "Ӟ" >> >>, << "ӡ", << "Ӡ" >> >>, << "ӣ", << "Ӣ" >> >>,
      << "ӥ", << "Ӥ" >> >>, << "ӧ", << "Ӧ" >> >>, << "ө", << "Ө" >> >>,
      << "ӫ", << "Ӫ" >> >>, << "ӭ", << "Ӭ" >> >>, << "ӯ", << "Ӯ" >> >>,
      << "ӱ", << "Ӱ" >> >>, << "ӳ", << "Ӳ" >> >>, << "ӵ", << "Ӵ" >> >>,
      << "ӷ", << "Ӷ" >> >>, << "ӹ", << "Ӹ" >> >>, << "ӻ", << "Ӻ" >> >>,
      << "ӽ", << "Ӽ" >> >>, << "ӿ", << "Ӿ" >> >>, << "ր", << "U+0550" >> >>,
      << "ց", << "U+0551" >> >>, << "ւ", << "U+0552" >> >>,
      << "փ", << "U+0553" >> >>, << "ք", << "U+0554" >> >>,
      << "օ", << "U+0555" >> >>, << "ֆ", << "U+0556" >> >>,
      << "և", << "U+0535", "U+0552" >> >>, << "ა", << "Ა" >> >>,
      << "ბ", << "Ბ" >> >>, << "გ", << "Გ" >> >>, << "დ", << "Დ" >> >>,
      << "ე", << "Ე" >> >>, << "ვ", << "Ვ" >> >>, << "ზ", << "Ზ" >> >>,
      << "თ", << "Თ" >> >>, << "ი", << "Ი" >> >>, << "კ", << "Კ" >> >>,
      << "ლ", << "Ლ" >> >>, << "მ", << "Მ" >> >>, << "ნ", << "Ნ" >> >>,
      << "ო", << "Ო" >> >>, << "პ", << "Პ" >> >>, << "ჟ", << "Ჟ" >> >>,
      << "რ", << "Რ" >> >>, << "ს", << "Ს" >> >>, << "ტ", << "Ტ" >> >>,
      << "უ", << "Უ" >> >>, << "ფ", << "Ფ" >> >>, << "ქ", << "Ქ" >> >>,
      << "ღ", << "Ღ" >> >>, << "ყ", << "Ყ" >> >>, << "შ", << "Შ" >> >>,
      << "ჩ", << "Ჩ" >> >>, << "ც", << "Ც" >> >>, << "ძ", << "Ძ" >> >>,
      << "წ", << "Წ" >> >>, << "ჭ", << "Ჭ" >> >>, << "ხ", << "Ხ" >> >>,
      << "ჯ", << "Ჯ" >> >>, << "ჰ", << "Ჰ" >> >>, << "ჱ", << "Ჱ" >> >>,
      << "ჲ", << "Ჲ" >> >>, << "ჳ", << "Ჳ" >> >>, << "ჴ", << "Ჴ" >> >>,
      << "ჵ", << "Ჵ" >> >>, << "ჶ", << "Ჶ" >> >>, << "ჷ", << "Ჷ" >> >>,
      << "ჸ", << "Ჸ" >> >>, << "ჹ", << "Ჹ" >> >>, << "ჺ", << "Ჺ" >> >>,
      << "ჽ", << "Ჽ" >> >>, << "ჾ", << "Ჾ" >> >>, << "ჿ", << "Ჿ" >> >>,
      << "ᏸ", << "Ᏸ" >> >>, << "ᏹ", << "Ᏹ" >> >>, << "ᏺ", << "Ᏺ" >> >>,
      << "ᏻ", << "Ᏻ" >> >>, << "ᏼ", << "Ᏼ" >> >>, << "ᏽ", << "Ᏽ" >> >>,
      << "ᲀ", << "U+0412" >> >>, << "ᲁ", << "U+0414" >> >>,
      << "ᲂ", << "U+041E" >> >>, << "ᲃ", << "U+0421" >> >>,
      << "ᲄ", << "U+0422" >> >>, << "ᲅ", << "U+0422" >> >>,
      << "ᲆ", << "U+042A" >> >>, << "ᲇ", << "U+0462" >> >>,
      << "ᲈ", << "U+A64A" >> >>, << "ᶎ", << "Ᶎ" >> >>, << "ẁ", << "Ẁ" >> >>,
      << "ẃ", << "Ẃ" >> >>, << "ẅ", << "Ẅ" >> >>, << "ẇ", << "Ẇ" >> >>,
      << "ẉ", << "Ẉ" >> >>, << "ẋ", << "Ẋ" >> >>, << "ẍ", << "Ẍ" >> >>,
      << "ẏ", << "Ẏ" >> >>, << "ẑ", << "Ẑ" >> >>, << "ẓ", << "Ẓ" >> >>,
      << "ẕ", << "Ẕ" >> >>, << "ẖ", << "H", "U+0331" >> >>,
      << "ẗ", << "T", "U+0308" >> >>, << "ẘ", << "W", "U+030A" >> >>,
      << "ẙ", << "Y", "U+030A" >> >>, << "ẚ", << "A", "ʾ" >> >>,
      << "ẛ", << "U+1E60" >> >>, << "ạ", << "Ạ" >> >>, << "ả", << "Ả" >> >>,
      << "ấ", << "Ấ" >> >>, << "ầ", << "Ầ" >> >>, << "ẩ", << "Ẩ" >> >>,
      << "ẫ", << "Ẫ" >> >>, << "ậ", << "Ậ" >> >>, << "ắ", << "Ắ" >> >>,
      << "ằ", << "Ằ" >> >>, << "ẳ", << "Ẳ" >> >>, << "ẵ", << "Ẵ" >> >>,
      << "ặ", << "Ặ" >> >>, << "ẹ", << "Ẹ" >> >>, << "ẻ", << "Ẻ" >> >>,
      << "ẽ", << "Ẽ" >> >>, << "ế", << "Ế" >> >>, << "ề", << "Ề" >> >>,
      << "ể", << "Ể" >> >>, << "ễ", << "Ễ" >> >>, << "ệ", << "Ệ" >> >>,
      << "ỉ", << "Ỉ" >> >>, << "ị", << "Ị" >> >>, << "ọ", << "Ọ" >> >>,
      << "ỏ", << "Ỏ" >> >>, << "ố", << "Ố" >> >>, << "ồ", << "Ồ" >> >>,
      << "ổ", << "Ổ" >> >>, << "ỗ", << "Ỗ" >> >>, << "ộ", << "Ộ" >> >>,
      << "ớ", << "Ớ" >> >>, << "ờ", << "Ờ" >> >>, << "ở", << "Ở" >> >>,
      << "ỡ", << "Ỡ" >> >>, << "ợ", << "Ợ" >> >>, << "ụ", << "Ụ" >> >>,
      << "ủ", << "Ủ" >> >>, << "ứ", << "Ứ" >> >>, << "ừ", << "Ừ" >> >>,
      << "ử", << "Ử" >> >>, << "ữ", << "Ữ" >> >>, << "ự", << "Ự" >> >>,
      << "ỳ", << "Ỳ" >> >>, << "ỵ", << "Ỵ" >> >>, << "ỷ", << "Ỷ" >> >>,
      << "ỹ", << "Ỹ" >> >>, << "ỻ", << "Ỻ" >> >>, << "ỽ", << "Ỽ" >> >>,
      << "ỿ", << "Ỿ" >> >>, << "ᾀ", << "U+1F08", "Ι" >> >>,
      << "ᾁ", << "U+1F09", "Ι" >> >>, << "ᾂ", << "U+1F0A", "Ι" >> >>,
      << "ᾃ", << "U+1F0B", "Ι" >> >>, << "ᾄ", << "U+1F0C", "Ι" >> >>,
      << "ᾅ", << "U+1F0D", "Ι" >> >>, << "ᾆ", << "U+1F0E", "Ι" >> >>,
      << "ᾇ", << "U+1F0F", "Ι" >> >>, << "ᾈ", << "U+1F08", "Ι" >> >>,
      << "ᾉ", << "U+1F09", "Ι" >> >>, << "ᾊ", << "U+1F0A", "Ι" >> >>,
      << "ᾋ", << "U+1F0B", "Ι" >> >>, << "ᾌ", << "U+1F0C", "Ι" >> >>,
      << "ᾍ", << "U+1F0D", "Ι" >> >>, << "ᾎ", << "U+1F0E", "Ι" >> >>,
      << "ᾏ", << "U+1F0F", "Ι" >> >>, << "ᾐ", << "U+1F28", "Ι" >> >>,
      << "ᾑ", << "U+1F29", "Ι" >> >>, << "ᾒ", << "U+1F2A", "Ι" >> >>,
      << "ᾓ", << "U+1F2B", "Ι" >> >>, << "ᾔ", << "U+1F2C", "Ι" >> >>,
      << "ᾕ", << "U+1F2D", "Ι" >> >>, << "ᾖ", << "U+1F2E", "Ι" >> >>,
      << "ᾗ", << "U+1F2F", "Ι" >> >>, << "ᾘ", << "U+1F28", "Ι" >> >>,
      << "ᾙ", << "U+1F29", "Ι" >> >>, << "ᾚ", << "U+1F2A", "Ι" >> >>,
      << "ᾛ", << "U+1F2B", "Ι" >> >>, << "ᾜ", << "U+1F2C", "Ι" >> >>,
      << "ᾝ", << "U+1F2D", "Ι" >> >>, << "ᾞ", << "U+1F2E", "Ι" >> >>,
      << "ᾟ", << "U+1F2F", "Ι" >> >>, << "ᾠ", << "U+1F68", "Ι" >> >>,
      << "ᾡ", << "U+1F69", "Ι" >> >>, << "ᾢ", << "U+1F6A", "Ι" >> >>,
      << "ᾣ", << "U+1F6B", "Ι" >> >>, << "ᾤ", << "U+1F6C", "Ι" >> >>,
      << "ᾥ", << "U+1F6D", "Ι" >> >>, << "ᾦ", << "U+1F6E", "Ι" >> >>,
      << "ᾧ", << "U+1F6F", "Ι" >> >>, << "ᾨ", << "U+1F68", "Ι" >> >>,
      << "ᾩ", << "U+1F69", "Ι" >> >>, << "ᾪ", << "U+1F6A", "Ι" >> >>,
      << "ᾫ", << "U+1F6B", "Ι" >> >>, << "ᾬ", << "U+1F6C", "Ι" >> >>,
      << "ᾭ", << "U+1F6D", "Ι" >> >>, << "ᾮ", << "U+1F6E", "Ι" >> >>,
      << "ᾯ", << "U+1F6F", "Ι" >> >>, << "ᾰ", << "Ᾰ" >> >>,
      << "ᾱ", << "Ᾱ" >> >>, << "ᾲ", << "Ὰ", "Ι" >> >>,
      << "ᾳ", << "Α", "Ι" >> >>, << "ᾴ", << "Ά", "Ι" >> >>,
      << "ᾶ", << "Α", "U+0342" >> >>, << "ᾷ", << "Α", "U+0342", "Ι" >> >>,
      << "ᾼ", << "Α", "Ι" >> >>, << "ι", << "Ι" >> >>,
      << "ῂ", << "Ὴ", "Ι" >> >>, << "ῃ", << "Η", "Ι" >> >>,
      << "ῄ", << "Ή", "Ι" >> >>, << "ῆ", << "Η", "U+0342" >> >>,
      << "ῇ", << "Η", "U+0342", "Ι" >> >>, << "ῌ", << "Η", "Ι" >> >>,
      << "ῐ", << "Ῐ" >> >>, << "ῑ", << "Ῑ" >> >>,
      << "ῒ", << "Ι", "U+0308", "U+0300" >> >>,
      << "ΐ", << "Ι", "U+0308", "U+0301" >> >>, << "ῖ", << "Ι", "U+0342" >> >>,
      << "ῗ", << "Ι", "U+0308", "U+0342" >> >>, << "ῠ", << "Ῠ" >> >>,
      << "ῡ", << "Ῡ" >> >>, << "ῢ", << "Υ", "U+0308", "U+0300" >> >>,
      << "ΰ", << "Υ", "U+0308", "U+0301" >> >>, << "ῤ", << "Ρ", "U+0313" >> >>,
      << "ῥ", << "Ῥ" >> >>, << "ῦ", << "Υ", "U+0342" >> >>,
      << "ῧ", << "Υ", "U+0308", "U+0342" >> >>, << "ῲ", << "Ὼ", "Ι" >> >>,
      << "ῳ", << "Ω", "Ι" >> >>, << "ῴ", << "Ώ", "Ι" >> >>,
      << "ῶ", << "Ω", "U+0342" >> >>, << "ῷ", << "Ω", "U+0342", "Ι" >> >>,
      << "ῼ", << "Ω", "Ι" >> >>, << "ↄ", << "Ↄ" >> >>, << "ⓐ", << "Ⓐ" >> >>,
      << "ⓑ", << "Ⓑ" >> >>, << "ⓒ", << "Ⓒ" >> >>, << "ⓓ", << "Ⓓ" >> >>,
      << "ⓔ", << "Ⓔ" >> >>, << "ⓕ", << "Ⓕ" >> >>, << "ⓖ", << "Ⓖ" >> >>,
      << "ⓗ", << "Ⓗ" >> >>, << "ⓘ", << "Ⓘ" >> >>, << "ⓙ", << "Ⓙ" >> >>,
      << "ⓚ", << "Ⓚ" >> >>, << "ⓛ", << "Ⓛ" >> >>, << "ⓜ", << "Ⓜ" >> >>,
      << "ⓝ", << "Ⓝ" >> >>, << "ⓞ", << "Ⓞ" >> >>, << "ⓟ", << "Ⓟ" >> >>,
      << "ⓠ", << "Ⓠ" >> >>, << "ⓡ", << "Ⓡ" >> >>, << "ⓢ", << "Ⓢ" >> >>,
      << "ⓣ", << "Ⓣ" >> >>, << "ⓤ", << "Ⓤ" >> >>, << "ⓥ", << "Ⓥ" >> >>,
      << "ⓦ", << "Ⓦ" >> >>, << "ⓧ", << "Ⓧ" >> >>, << "ⓨ", << "Ⓨ" >> >>,
      << "ⓩ", << "Ⓩ" >> >>, << "ⲁ", << "Ⲁ" >> >>, << "ⲃ", << "Ⲃ" >> >>,
      << "ⲅ", << "Ⲅ" >> >>, << "ⲇ", << "Ⲇ" >> >>, << "ⲉ", << "Ⲉ" >> >>,
      << "ⲋ", << "Ⲋ" >> >>, << "ⲍ", << "Ⲍ" >> >>, << "ⲏ", << "Ⲏ" >> >>,
      << "ⲑ", << "Ⲑ" >> >>, << "ⲓ", << "Ⲓ" >> >>, << "ⲕ", << "Ⲕ" >> >>,
      << "ⲗ", << "Ⲗ" >> >>, << "ⲙ", << "Ⲙ" >> >>, << "ⲛ", << "Ⲛ" >> >>,
      << "ⲝ", << "Ⲝ" >> >>, << "ⲟ", << "Ⲟ" >> >>, << "ⲡ", << "Ⲡ" >> >>,
      << "ⲣ", << "Ⲣ" >> >>, << "ⲥ", << "Ⲥ" >> >>, << "ⲧ", << "Ⲧ" >> >>,
      << "ⲩ", << "Ⲩ" >> >>, << "ⲫ", << "Ⲫ" >> >>, << "ⲭ", << "Ⲭ" >> >>,
      << "ⲯ", << "Ⲯ" >> >>, << "ⲱ", << "Ⲱ" >> >>, << "ⲳ", << "Ⲳ" >> >>,
      << "ⲵ", << "Ⲵ" >> >>, << "ⲷ", << "Ⲷ" >> >>, << "ⲹ", << "Ⲹ" >> >>,
      << "ⲻ", << "Ⲻ" >> >>, << "ⲽ", << "Ⲽ" >> >>, << "ⲿ", << "Ⲿ" >> >>,
      << "ⳁ", << "Ⳁ" >> >>, << "ⳃ", << "Ⳃ" >> >>, << "ⳅ", << "Ⳅ" >> >>,
      << "ⳇ", << "Ⳇ" >> >>, << "ⳉ", << "Ⳉ" >> >>, << "ⳋ", << "Ⳋ" >> >>,
      << "ⳍ", << "Ⳍ" >> >>, << "ⳏ", << "Ⳏ" >> >>, << "ⳑ", << "Ⳑ" >> >>,
      << "ⳓ", << "Ⳓ" >> >>, << "ⳕ", << "Ⳕ" >> >>, << "ⳗ", << "Ⳗ" >> >>,
      << "ⳙ", << "Ⳙ" >> >>, << "ⳛ", << "Ⳛ" >> >>, << "ⳝ", << "Ⳝ" >> >>,
      << "ⳟ", << "Ⳟ" >> >>, << "ⳡ", << "Ⳡ" >> >>, << "ⳣ", << "Ⳣ" >> >>,
      << "ⳬ", << "Ⳬ" >> >>, << "ⳮ", << "Ⳮ" >> >>, << "ⳳ", << "Ⳳ" >> >>,
      << "ꚁ", << "Ꚁ" >> >>, << "ꚃ", << "Ꚃ" >> >>, << "ꚅ", << "Ꚅ" >> >>,
      << "ꚇ", << "Ꚇ" >> >>, << "ꚉ", << "Ꚉ" >> >>, << "ꚋ", << "Ꚋ" >> >>,
      << "ꚍ", << "Ꚍ" >> >>, << "ꚏ", << "Ꚏ" >> >>, << "ꚑ", << "Ꚑ" >> >>,
      << "ꚓ", << "Ꚓ" >> >>, << "ꚕ", << "Ꚕ" >> >>, << "ꚗ", << "Ꚗ" >> >>,
      << "ꚙ", << "Ꚙ" >> >>, << "ꚛ", << "Ꚛ" >> >>, << "ꞁ", << "Ꞁ" >> >>,
      << "ꞃ", << "Ꞃ" >> >>, << "ꞅ", << "Ꞅ" >> >>, << "ꞇ", << "Ꞇ" >> >>,
      << "ꞌ", << "Ꞌ" >> >>, << "ꞑ", << "Ꞑ" >> >>, << "ꞓ", << "Ꞓ" >> >>,
      << "ꞔ", << "Ꞔ" >> >>, << "ꞗ", << "Ꞗ" >> >>, << "ꞙ", << "Ꞙ" >> >>,
      << "ꞛ", << "Ꞛ" >> >>, << "ꞝ", << "Ꞝ" >> >>, << "ꞟ", << "Ꞟ" >> >>,
      << "ꞡ", << "Ꞡ" >> >>, << "ꞣ", << "Ꞣ" >> >>, << "ꞥ", << "Ꞥ" >> >>,
      << "ꞧ", << "Ꞧ" >> >>, << "ꞩ", << "Ꞩ" >> >>, << "ꞵ", << "Ꞵ" >> >>,
      << "ꞷ", << "Ꞷ" >> >>, << "ꞹ", << "Ꞹ" >> >>, << "ꞻ", << "Ꞻ" >> >>,
      << "ꞽ", << "Ꞽ" >> >>, << "ꞿ", << "Ꞿ" >> >>, << "ꟁ", << "Ꟁ" >> >>,
      << "ꟃ", << "Ꟃ" >> >>, << "ꟈ", << "Ꟈ" >> >>, << "ꟊ", << "Ꟊ" >> >>,
      << "ꟑ", << "Ꟑ" >> >>, << "ꟗ", << "Ꟗ" >> >>, << "ꟙ", << "Ꟙ" >> >>,
      << "ꟶ", << "Ꟶ" >> >>, << "ꮀ", << "Ꮀ" >> >>, << "ꮁ", << "Ꮁ" >> >>,
      << "ꮂ", << "Ꮂ" >> >>, << "ꮃ", << "Ꮃ" >> >>, << "ꮄ", << "Ꮄ" >> >>,
      << "ꮅ", << "Ꮅ" >> >>, << "ꮆ", << "Ꮆ" >> >>, << "ꮇ", << "Ꮇ" >> >>,
      << "ꮈ", << "Ꮈ" >> >>, << "ꮉ", << "Ꮉ" >> >>, << "ꮊ", << "Ꮊ" >> >>,
      << "ꮋ", << "Ꮋ" >> >>, << "ꮌ", << "Ꮌ" >> >>, << "ꮍ", << "Ꮍ" >> >>,
      << "ꮎ", << "Ꮎ" >> >>, << "ꮏ", << "Ꮏ" >> >>, << "ꮐ", << "Ꮐ" >> >>,
      << "ꮑ", << "Ꮑ" >> >>, << "ꮒ", << "Ꮒ" >> >>, << "ꮓ", << "Ꮓ" >> >>,
      << "ꮔ", << "Ꮔ" >> >>, << "ꮕ", << "Ꮕ" >> >>, << "ꮖ", << "Ꮖ" >> >>,
      << "ꮗ", << "Ꮗ" >> >>, << "ꮘ", << "Ꮘ" >> >>, << "ꮙ", << "Ꮙ" >> >>,
      << "ꮚ", << "Ꮚ" >> >>, << "ꮛ", << "Ꮛ" >> >>, << "ꮜ", << "Ꮜ" >> >>,
      << "ꮝ", << "Ꮝ" >> >>, << "ꮞ", << "Ꮞ" >> >>, << "ꮟ", << "Ꮟ" >> >>,
      << "ꮠ", << "Ꮠ" >> >>, << "ꮡ", << "Ꮡ" >> >>, << "ꮢ", << "Ꮢ" >> >>,
      << "ꮣ", << "Ꮣ" >> >>, << "ꮤ", << "Ꮤ" >> >>, << "ꮥ", << "Ꮥ" >> >>,
      << "ꮦ", << "Ꮦ" >> >>, << "ꮧ", << "Ꮧ" >> >>, << "ꮨ", << "Ꮨ" >> >>,
      << "ꮩ", << "Ꮩ" >> >>, << "ꮪ", << "Ꮪ" >> >>, << "ꮫ", << "Ꮫ" >> >>,
      << "ꮬ", << "Ꮬ" >> >>, << "ꮭ", << "Ꮭ" >> >>, << "ꮮ", << "Ꮮ" >> >>,
      << "ꮯ", << "Ꮯ" >> >>, << "ꮰ", << "Ꮰ" >> >>, << "ꮱ", << "Ꮱ" >> >>,
      << "ꮲ", << "Ꮲ" >> >>, << "ꮳ", << "Ꮳ" >> >>, << "ꮴ", << "Ꮴ" >> >>,
      << "ꮵ", << "Ꮵ" >> >>, << "ꮶ", << "Ꮶ" >> >>, << "ꮷ", << "Ꮷ" >> >>,
      << "ꮸ", << "Ꮸ" >> >>, << "ꮹ", << "Ꮹ" >> >>, << "ꮺ", << "Ꮺ" >> >>,
      << "ꮻ", << "Ꮻ" >> >>, << "ꮼ", << "Ꮼ" >> >>, << "ꮽ", << "Ꮽ" >> >>,
      << "ꮾ", << "Ꮾ" >> >>, << "ꮿ", << "Ꮿ" >> >> }

\* the table as a function from the character to its upper-case form
UpperMap ==
    [c \in {p[1] : p \in UpperPairs} |->
        (CHOOSE p \in UpperPairs : p[1] = c)[2]]

\* str.upper() of one character: the characters of the result
UpperChar(c) == IF c \in DOMAIN UpperMap THEN UpperMap[c] ELSE << c >>

\* s.upper(): the characters of the result
RECURSIVE Upper(_)
Upper(s) == IF s = "" THEN << >> ELSE UpperChar(Char(s, 1)) \o Upper(From(s, 2))

\* the characters tested, in the order of the source; the deckops list ends
\* with ":", which its own test "c != ':'" takes out again
InvalidFilenameChars == << "/", "\\", "?", "*", "|", "\"", "<", ">" >>

\* _WINDOWS_RESERVED (ankiops), reserved_names (deckops)
WindowsReserved ==
    << "CON", "PRN", "AUX", "NUL",
       "COM1", "COM2", "COM3", "COM4", "COM5", "COM6", "COM7", "COM8", "COM9",
       "LPT1", "LPT2", "LPT3", "LPT4", "LPT5", "LPT6", "LPT7", "LPT8", "LPT9" >>

\* repr() of a list of one-character strings, as the f-string writes it
ReprChars(chars) ==
    "[" \o Join([k \in 1..Len(chars) |->
                    "'" \o (IF chars[k] = "\\" THEN "\\\\" ELSE chars[k]) \o "'"],
                ", ") \o "]"

InvalidCharsMessage(ed, deck_name, invalid) ==
    "Deck name '" \o deck_name \o "' contains invalid filename characters: "
    \o ReprChars(invalid)
    \o (IF ed = "ankiops"
        THEN "\nPlease rename the deck in Anki to remove these."
        ELSE "\nPlease rename the deck in Anki to remove these characters: "
             \o "/ \\ ? * | \" < >")

ReservedNameMessage(ed, deck_name, base) ==
    "Deck name '" \o deck_name \o "' starts with Windows reserved name '"
    \o base \o "'."
    \o (IF ed = "ankiops"
        THEN "\nPlease rename the deck in Anki."
        ELSE "\nPlease rename the deck in Anki to avoid: "
             \o Join(WindowsReserved, ", "))

\* sanitize_filename comparing the base name as written, without upper()
sanitize_filename_CaseSensitive(ed, deck_name) ==
    LET invalid == SelectSeq(InvalidFilenameChars,
                             LAMBDA c : Contains(deck_name, c))
        base == Split(deck_name, "::")[1]
    IN  IF invalid # << >>
        THEN Raise("ValueError", InvalidCharsMessage(ed, deck_name, invalid))
        ELSE IF \E k \in 1..Len(WindowsReserved) : WindowsReserved[k] = base
        THEN Raise("ValueError", ReservedNameMessage(ed, deck_name, base))
        ELSE Return(Replace(deck_name, "::", "__"))

\* sanitize_filename(deck_name)
sanitize_filename(ed, deck_name) ==
    LET invalid == SelectSeq(InvalidFilenameChars,
                             LAMBDA c : Contains(deck_name, c))
        base == Upper(Split(deck_name, "::")[1])
        reserved == SelectSeq(WindowsReserved, LAMBDA name : Chars(name) = base)
    IN  IF invalid # << >>
        THEN Raise("ValueError", InvalidCharsMessage(ed, deck_name, invalid))
        ELSE IF reserved # << >>
        THEN Raise("ValueError", ReservedNameMessage(ed, deck_name, reserved[1]))
        ELSE Return(Replace(deck_name, "::", "__"))

-----------------------------------------------------------------------------
(* note_types: the note types kept in the remote collection                *)

\* The remote state is [store, calls]: store maps a model name to None or
\* to Some of the model's record [fields, css, isCloze, templates], the
\* templates a list of << name, [Front, Back] >> in the collection's order;
\* calls is the list of << action, modelName >> invoked so far.

\* the text of a file of the card_templates package
_load_template(filename) == "<" \o filename \o ">\n"

_get_card_templates(model_name) ==
    LET front == _load_template(model_name \o "Front.template.anki")
        back == _load_template(model_name \o "Back.template.anki")
        templates == << [Name |-> "Card 1", Front |-> front, Back |-> back] >>
    IN  IF model_name = "AnkiOpsReversed"
        THEN Append(templates,
                    [Name |-> "Card 2",
                     Front |-> _load_template(model_name \o "Front2.template.anki"),
                     Back |-> _load_template(model_name \o "Back2.template.anki")])
        ELSE templates

\* invoke(action, ...): the call is recorded
Invoked(r, action, model_name) ==
    [r EXCEPT !.calls = Append(@, <<action, model_name>>)]

\* invoke("modelNames")
modelNames(r) == {m \in DOMAIN r.store : r.store[m] # None}

\* invoke("createModel", ...): the model is added as given
createModel(r, modelName, inOrderFields, css, isCloze, cardTemplates) ==
    [Invoked(r, "createModel", modelName) EXCEPT
        !.store[modelName] =
            Some([fields |-> inOrderFields, css |-> css, isCloze |-> isCloze,
                  templates |-> [k \in 1..Len(cardTemplates) |->
                      << cardTemplates[k].Name,
                         [Front |-> cardTemplates[k].Front,
                          Back |-> cardTemplates[k].Back] >>]])]

\* invoke("modelStyling", modelName=...)
modelStyling(r, modelName) == << <<"css", r.store[modelName][1].css>> >>

\* invoke("modelTemplates", modelName=...)
modelTemplates(r, modelName) == r.store[modelName][1].templates

\* invoke("updateModelStyling", model={name, css})
updateModelStyling(r, name, css) ==
    [Invoked(r, "updateModelStyling", name) EXCEPT !.store[name][1].css = css]

\* invoke("updateModelTemplates", model={name, templates}): the templates of
\* the model that the dict names get its Front and Back; no template is
\* added or removed
updateModelTemplates(r, name, templates) ==
    [Invoked(r, "updateModelTemplates", name) EXCEPT
        !.store[name][1].templates =
            [k \in 1..Len(@) |->
                IF HasKey(templates, @[k][1])
                THEN << @[k][1], DictGet(templates, @[k][1], None) >>
                ELSE @[k]]]

_create_model(r, model_name, is_cloze) ==
    LET cfg == TypeConfig("ankiops", model_name)
        fields == [k \in 1..Len(cfg) |-> cfg[k][1]]
        css == _load_template("Styling.css")
        card_templates == _get_card_templates(model_name)
    IN  createModel(r, model_name, fields, css, is_cloze, card_templates)

\* the comparisons of _is_model_up_to_date, on the styling and the templates
\* it has read
UpToDate(current_styling, current_templates, model_name) ==
    LET css == _load_template("Styling.css")
        expected_templates == _get_card_templates(model_name)
    IN  /\ Strip(DictGet(current_styling, "css", "")) = Strip(css)
        /\ Len(current_templates) = Len(expected_templates)
        /\ \A i \in 1..Len(expected_templates) :
              /\ i <= Len(current_templates)
              /\ Strip(current_templates[i][2].Front)
                    = Strip(expected_templates[i].Front)
              /\ Strip(current_templates[i][2].Back)
                    = Strip(expected_templates[i].Back)

\* _is_model_up_to_date(model_name): the value returned when the collection
\* does not change between its two reads
_is_model_up_to_date(r, model_name) ==
    UpToDate(modelStyling(r, model_name), modelTemplates(r, model_name), model_name)

\* the two reads _is_model_up_to_date makes
UpToDateInvoked(r, model_name) ==
    Invoked(Invoked(r, "modelStyling", model_name), "modelTemplates", model_name)

\* templates_dict of _update_model: the expected texts under the names the
\* model's templates have, as far as both lists go
TemplatesDict(current_templates, model_name) ==
    LET expected_templates == _get_card_templates(model_name)
        current_template_names == DictKeys(current_templates)
        shared == IF Len(expected_templates) < Len(current_template_names)
                  THEN Len(expected_templates) ELSE Len(current_template_names)
    IN  [i \in 1..shared |->
            << current_template_names[i],
               [Front |-> expected_templates[i].Front,
                Back |-> expected_templates[i].Back] >>]

\* _update_model(model_name) when the collection does not change between
\* its calls
_update_model(r, model_name) ==
    LET css == _load_template("Styling.css")
        r1 == updateModelStyling(r, model_name, css)
        current_templates == modelTemplates(r1, model_name)
        r2 == Invoked(r1, "modelTemplates", model_name)
    IN  updateModelTemplates(r2, model_name,
                             TemplatesDict(current_templates, model_name))

\* one "if ... not in existing ... elif not _is_model_up_to_date" statement
EnsureOne(r, existing, model_name, is_cloze) ==
    IF model_name \notin existing
    THEN _create_model(r, model_name, is_cloze)
    ELSE IF ~_is_model_up_to_date(r, model_name)
    THEN _update_model(UpToDateInvoked(r, model_name), model_name)
    ELSE UpToDateInvoked(r, model_name)

\* ensure_note_types(): the remote state it leaves when nobody else acts on
\* the collection meanwhile
ensure_note_types(r) ==
    LET existing == modelNames(r)
        r0 == Invoked(r, "modelNames", "")
        r1 == EnsureOne(r0, existing, "AnkiOpsQA", FALSE)
        r2 == EnsureOne(r1, existing, "AnkiOpsReversed", FALSE)
        r3 == EnsureOne(r2, existing, "AnkiOpsCloze", TRUE)
        r4 == EnsureOne(r3, existing, "AnkiOpsInput", FALSE)
    IN  EnsureOne(r4, existing, "AnkiOpsChoice", FALSE)

\* the five statements of ensure_note_types: << model name, is_cloze >>
EnsureStatements ==
    << <<"AnkiOpsQA", FALSE>>, <<"AnkiOpsReversed", FALSE>>,
       <<"AnkiOpsCloze", TRUE>>, <<"AnkiOpsInput", FALSE>>,
       <<"AnkiOpsChoice", FALSE>> >>

\* the exception invoke raises when the remote side answers with an error:
\* a model to create exists, a model to read or update does not
RemoteError(action, model_name) ==
    Raise("Exception",
          IF action = "createModel" THEN "Model name already exists"
          ELSE "model was not found: " \o model_name)

\* the locals of a call placed before statement k: the branch is chosen from
\* existing; after the last statement the function returns
Goto(f, k) ==
    IF k > Len(EnsureStatements)
    THEN [f EXCEPT !.pc = "done", !.k = 0,
                   !.current_styling = None, !.current_templates = None]
    ELSE [f EXCEPT !.k = k,
                   !.pc = IF EnsureStatements[k][1] \notin f.existing
                          THEN "createModel" ELSE "modelStyling",
                   !.current_styling = None, !.current_templates = None]

-----------------------------------------------------------------------------
(* Inputs                                                                  *)

Editions == {"ankiops", "deckops"}

\* longest block, in lines, given to parse_note_block
MaxLines == 4

\* the lines blocks are made of: field lines (prefix with and without
\* text), fence lines of both markers, two note-id comments, and an
\* indented line that only resembles a prefix
ParseVocabulary ==
    { "Q: x", "Q:", "A: y", "~~~", " ^^^py", "<!-- note_id: 5 -->",
      "<!--note_id:12-->", " A: in" }

BlocksOf(vocabulary, n) ==
    {Join(ls, "\n") : ls \in UNION {[1..k -> vocabulary] : k \in 1..n}}

ParseBlocks == BlocksOf(ParseVocabulary, MaxLines)

\* the lines of the blocks that are parsed, formatted and parsed again:
\* fields of several note types, an empty field, a line that is a prefix
\* once its trailing tab is trimmed, a fence, plain text
RoundTripVocabulary ==
    { "Q: x", "Q:", "A: y", "E: z", "E:\t", "T: c", "~~~", "text" }

RoundTripBlocks == BlocksOf(RoundTripVocabulary, MaxLines)

RoundTripIds == {0, 907}

\* the dict of the pairs << name, value or None >> whose value is given
Present(pairs) ==
    LET given == SelectSeq(pairs, LAMBDA p : p[2] # None)
    IN  [k \in 1..Len(given) |-> << given[k][1], given[k][2][1] >>]

ParsedNote(note_id, note_type, fields, raw_content) ==
    [note_id |-> note_id, note_type |-> note_type, fields |-> fields,
     raw_content |-> raw_content]

\* the prefix the edition's parser reads the field from
PrefixOf(ed, name) ==
    LET d == ALL_PREFIX_TO_FIELD(ed)
    IN  d[CHOOSE i \in 1..Len(d) : d[i][2] = name][1]

\* a block the fields are parsed from: one prefix line for each field
RawContent(ed, fields) ==
    Join([k \in 1..Len(fields) |->
             PrefixOf(ed, fields[k][1])
             \o (IF fields[k][2] = "" THEN "" ELSE " " \o fields[k][2])], "\n")

\* the contents a field of the edition can have: none when the edition has
\* no prefix for the field
FieldValues(ed, name, values) ==
    IF \E i \in 1..Len(ALL_PREFIX_TO_FIELD(ed)) : ALL_PREFIX_TO_FIELD(ed)[i][2] = name
    THEN values ELSE {None}

\* Answers of a choice note: the lists of up to MaxAnswers integers, each in
\* 0..MaxAnswer or one of the two around the last choice number, written
\* with either separator, and answers that are no list of integers
\* (ints = None)
MaxAnswers == 2

MaxAnswer == 4

AnswerValues == 0..MaxAnswer \cup {7, 8}

IntLists == UNION {[1..n -> AnswerValues] : n \in 1..MaxAnswers}

AnswerCases ==
    {[text |-> Join([k \in 1..Len(ints) |-> IntToStr(ints[k])], sep), ints |-> ints] :
        ints \in IntLists, sep \in {",", ", "}}
    \cup {[text |-> t, ints |-> None] : t \in {"", "x", "1, x", "1,,2"}}

\* which "Choice N" fields a choice note holds, with their contents
ChoiceLayouts ==
    { << >>,
      << <<1, "a">> >>,
      << <<1, "a">>, <<2, "b">> >>,
      << <<1, "a">>, <<2, "b">>, <<3, "c">> >>,
      << <<1, "a">>, <<2, "b">>, <<3, "">> >>,
      << <<1, "a">>, <<3, "c">> >>,
      << <<2, "b">>, <<7, "g">> >> }

ChoiceCases(ed) ==
    {[kind |-> "choice",
      note |-> LET fields == << <<"Question", "q">> >>
                               \o [k \in 1..Len(layout) |->
                                      << "Choice " \o IntToStr(layout[k][1]),
                                         layout[k][2] >>]
                               \o << <<"Answer", answer.text>> >>
               IN  ParsedNote(None, ChoiceName(ed), fields, RawContent(ed, fields)),
      ints |-> answer.ints, has_cloze |-> FALSE] :
        layout \in ChoiceLayouts, answer \in AnswerCases}

\* Texts of a cloze note, each with whether it holds "{{c", digits, "::"
ClozeTexts ==
    { <<"", FALSE>>, <<"c1::a", FALSE>>, <<"plain", FALSE>>, <<"{{c1::a}}", TRUE>>,
      <<"{{c::a}}", FALSE>>, <<"x {{c12::a}} y", TRUE>>, <<"{{c1:a}}", FALSE>>,
      <<"{c1::a}}", FALSE>>, <<"{{c1 {{c2::b}}", TRUE>>, <<"{{C1::a}}", FALSE>> }

ClozeCases(ed) ==
    {[kind |-> "cloze",
      note |-> LET fields == Present(<< <<"Text", IF given THEN Some(t[1]) ELSE None>>,
                                        <<"Extra", extra>> >>)
               IN  ParsedNote(None, ClozeName(ed), fields, RawContent(ed, fields)),
      ints |-> None, has_cloze |-> given /\ t[2]] :
        t \in ClozeTexts, given \in BOOLEAN, extra \in {None, Some("e")}}

\* notes of every type of the edition, and of an unknown one, over fields
\* that are absent, empty or filled; a content is as the parser stores it,
\* trimmed of whitespace at both ends
FieldCases(ed) ==
    {[kind |-> "fields",
      note |-> LET fields == Present(<< <<"Question", q>>, <<"Answer", a>>,
                                        <<"Text", t>>, <<"Front", f>>,
                                        <<"Back", b>>, <<"Input", i>>,
                                        <<"Choice 1", c>> >>)
               IN  ParsedNote(None, type, fields, RawContent(ed, fields)),
      ints |-> None, has_cloze |-> FALSE] :
        type \in KeySet(NOTE_TYPES(ed)) \cup {"Bogus"},
        q \in {None, Some(""), Some("x"), Some("x\n\ny")},
        a \in {None, Some(""), Some("1")},
        t \in {None, Some(""), Some("{{c1::x}}")},
        f \in FieldValues(ed, "Front", {None, Some("f")}),
        b \in FieldValues(ed, "Back", {None, Some(""), Some("b")}),
        i \in FieldValues(ed, "Input", {None, Some("i")}),
        c \in {None, Some(""), Some("c")}}

\* the notes validated: a note the parser returns holds a field at least
ValidateCases(ed) ==
    {case \in ChoiceCases(ed) \cup ClozeCases(ed) \cup FieldCases(ed) :
        case.note.fields # << >>}

\* the fields dicts handed to note type inference: up to MaxFields distinct
\* field names in any order, all with a content or all left empty
MaxFields == 4

InferNames ==
    { "Question", "Answer", "Text", "Front", "Back", "Input", "Choice 1",
      "Extra" }

InferKeyLists ==
    UNION {{ks \in [1..n -> InferNames] :
               \A a, b \in 1..n : a # b => ks[a] # ks[b]} : n \in 0..MaxFields}

InferFields ==
    {[k \in 1..Len(ks) |-> << ks[k], content >>] :
        ks \in InferKeyLists, content \in {"", "x"}}

\* what note["fields"] can hold for a field name: nothing, an empty dict, or
\* a dict with or without a "value" entry
FieldDataCases ==
    { None,
      Some(<< >>),
      Some(<< <<"value", "">>, <<"order", 0>> >>),
      Some(<< <<"value", "x">>, <<"order", 0>> >>),
      Some(<< <<"value", "<br>">>, <<"order", 0>> >>),
      Some(<< <<"order", 0>> >>) }

FormatNotes ==
    {[fields |-> Present(<< <<"Question", q>>, <<"Answer", a>>,
                            <<"Extra", e>>, <<"Text", t>> >>)] :
        q \in FieldDataCases, a \in FieldDataCases,
        e \in FieldDataCases, t \in FieldDataCases}

Converters == {"identity", "html"}

\* How a file can begin, each with the deck id its marker gives and the
\* part of the beginning that stays in the text: the marker with one or two
\* newlines or text after it, with other spacing, and beginnings that are
\* no marker
FileHeads ==
    { [text |-> "", deck_id |-> None, rest |-> ""],
      [text |-> "<!-- deck_id: 7 -->\n", deck_id |-> Some(7), rest |-> ""],
      [text |-> "<!-- deck_id: 7 -->E: e\n", deck_id |-> Some(7), rest |-> "E: e\n"],
      [text |-> "<!-- deck_id: 7 -->\n\n", deck_id |-> Some(7), rest |-> "\n"],
      [text |-> "<!--deck_id:12  -->\n", deck_id |-> Some(12), rest |-> ""],
      [text |-> " <!-- deck_id: 7 -->\n", deck_id |-> None,
       rest |-> " <!-- deck_id: 7 -->\n"],
      [text |-> "<!-- deck_id: x -->\n", deck_id |-> None,
       rest |-> "<!-- deck_id: x -->\n"],
      [text |-> "<!-- note_id: 7 -->\n", deck_id |-> None,
       rest |-> "<!-- note_id: 7 -->\n"] }

\* the segments between separators: notes, with and without whitespace
\* around them, blank segments, and text that is no note
FileSegments ==
    { "Q: x\nA: y", "Q: z\nA: w", "\nQ: z\nA: w\n", "", " \n", "hello",
      "<!-- note_id: 5 -->\nT: {{c1::a}}" }

MaxSegments == 2

SegmentLists == UNION {[1..n -> FileSegments] : n \in 1..MaxSegments}

FileCases ==
    {[head |-> head, segments |-> segments,
      content |-> head.text \o Join(segments, NOTE_SEPARATOR)] :
        head \in FileHeads, segments \in SegmentLists}

FilePath == "decks/deck.md"

\* the notes of a file state for the id check: with an id, with the id 0,
\* without id
IdNote(note_id, raw_content) ==
    ParsedNote(note_id, "AnkiOpsQA", << <<"Question", "x">>, <<"Answer", "y">> >>,
               raw_content)

IdNoteLists ==
    { << >>,
      << IdNote(Some(5), "<!-- note_id: 5 -->\nQ: x\nA: y") >>,
      << IdNote(Some(6), "<!-- note_id: 6 -->\nQ: x\nA: y"),
         IdNote(Some(5), "<!-- note_id: 5 -->\nQ: x\nA: y") >>,
      << IdNote(None, "Q: x\nA: y"),
         IdNote(Some(6), "<!-- note_id: 6 -->\nQ: x\nA: y") >>,
      << IdNote(Some(5), "<!-- note_id: 5 -->\nQ: x\nA: y"),
         IdNote(Some(5), "<!-- note_id: 5 -->\nQ: x\nA: y") >>,
      << IdNote(Some(0), "\n<!-- note_id: 0 -->\nQ: x\nA: y") >> }

MaxFiles == 2

\* the k-th file state of a call: each file has its own path
IdFileStates(k) ==
    {FileState("decks/f" \o IntToStr(k) \o ".md", "raw", deck_id, notes) :
        deck_id \in {None, Some(7), Some(8)}, notes \in IdNoteLists}

IdFileLists ==
    UNION {{files \in [1..n -> UNION {IdFileStates(k) : k \in 1..n}] :
               \A k \in 1..n : files[k] \in IdFileStates(k)} : n \in 0..MaxFiles}

\* the fields dicts handed to convert_fields_to_html
HtmlFields ==
    {Present(<< <<"Question", q>>, <<"Other", o>>, <<"Extra", e>>,
                <<"Text", t>>, <<"Answer", a>> >>) :
        q \in {None, Some(""), Some("x"), Some("a\nb")},
        o \in {None, Some("x")},
        e \in {None, Some(""), Some(" "), Some("x")},
        t \in {None, Some(""), Some("{{c1::x}}")},
        a \in {None, Some(""), Some("x"), Some("a\nb")}}

HtmlConverters == {"identity", "breaks"}

\* deck names: up to MaxNameParts parts, among them the separator, a single
\* colon, the characters a file name cannot hold, and names of devices
MaxNameParts == 3

NameParts ==
    { "a", "::", ":", "con", "Lpt1", "NUL", "COM0",
      "/", "\\", "?*", "|\"", "<>" }

DeckNames ==
    UNION {{Join(parts, "") : parts \in [1..n -> NameParts]} : n \in 0..MaxNameParts}

\* the remote collection: each of the five note types is missing, or as
\* _create_model makes it, or exists with some styling and one to
\* MaxTemplates card templates, each holding the packaged text or another;
\* at most MaxStale of them are in the last case
MaxTemplates == 2

MaxStale == 1

MaxCalls == 2

\* changes another client of the collection makes while it is connected
MaxEdits == 1

ModelNames == KeySet(AnkiOpsNoteTypes)

StylingValues == { _load_template("Styling.css"), "<Styling.css>", "old" }

TemplateTexts(model_name, i) ==
    IF i <= Len(_get_card_templates(model_name))
    THEN { [Front |-> _get_card_templates(model_name)[i].Front,
            Back |-> _get_card_templates(model_name)[i].Back],
           [Front |-> _get_card_templates(model_name)[i].Front,
            Back |-> "old"] }
    ELSE { [Front |-> "old", Back |-> "old"] }

TemplateNames == << "Card 1", "Card 2", "Card 3", "Card 4" >>

TemplateLists(model_name) ==
    UNION {{[i \in 1..n |-> << TemplateNames[i], pick[i] >>] :
               pick \in {p \in [1..n -> UNION {TemplateTexts(model_name, i) : i \in 1..n}] :
                            \A i \in 1..n : p[i] \in TemplateTexts(model_name, i)}} :
           n \in 1..MaxTemplates}

NoRemote == [store |-> [m \in ModelNames |-> None], calls |-> << >>]

Created(model_name) ==
    _create_model(NoRemote, model_name, model_name = "AnkiOpsCloze").store[model_name]

StaleModels(model_name) ==
    {Some([Created(model_name)[1] EXCEPT !.css = css, !.templates = templates]) :
        css \in StylingValues, templates \in TemplateLists(model_name)}
    \ {Created(model_name)}

\* the first k note types of the configuration, at most stale of them stale
RECURSIVE StoreLists(_, _)
StoreLists(k, stale) ==
    IF k = 0 THEN { << >> }
    ELSE LET m == DictKeys(AnkiOpsNoteTypes)[k]
         IN  {Append(s, x) : s \in StoreLists(k - 1, stale),
                             x \in {None, Created(m)}}
             \cup (IF stale = 0 THEN {}
                   ELSE {Append(s, x) : s \in StoreLists(k - 1, stale - 1),
                                        x \in StaleModels(m)})

Stores(stale) ==
    {[m \in ModelNames |->
         s[CHOOSE k \in 1..Len(s) : DictKeys(AnkiOpsNoteTypes)[k] = m]] :
        s \in StoreLists(Len(AnkiOpsNoteTypes), stale)}

\* blocks that are parsed and then validated: up to MaxParsedLines lines,
\* each given with the field its prefix opens ("" for the fence line);
\* fields of every note type, some with no content
MaxParsedLines == 3

ParsedWords ==
    << <<"Q:", "Question">>, <<"Q: x", "Question">>, <<"A: y", "Answer">>,
       <<"T:", "Text">>, <<"F: f", "Front">>, <<"B:", "Back">>,
       <<"I: i", "Input">>, <<"C1: c", "Choice 1">>, <<"E: e", "Extra">>,
       <<"~~~", "">> >>

ParsedBlocks == BlocksOf(KeySet(ParsedWords), MaxParsedLines)

-----------------------------------------------------------------------------
(* The calls                                                               *)

NoArg == << >>

NoFrame == NewFrame(<< >>)

Init ==
    /\ edition \in Editions
    /\ op = "idle"
    /\ arg = NoArg
    /\ frame = NoFrame
    /\ ret = Return(None)

\* parse_note_block(block) is entered: block.strip().split("\n") and the
\* initial locals
ParseEnter ==
    /\ op = "idle"
    /\ \E block \in ParseBlocks :
          /\ arg' = [block |-> block]
          /\ frame' = NewFrame(Split(Strip(block), "\n"))
    /\ op' = "parse_note_block"
    /\ UNCHANGED <<edition, ret>>

\* one iteration of the loop; a duplicate field raises out of the call
ParseStep ==
    /\ op = "parse_note_block"
    /\ frame.i <= Len(frame.lines)
    /\ LET f == ParseLine(edition, frame, frame.lines[frame.i])
       IN  IF Raised(f.raised)
           THEN /\ ret' = f.raised
                /\ op' = "parse_note_block:done"
                /\ frame' = f
           ELSE /\ frame' = [f EXCEPT !.i = @ + 1]
                /\ UNCHANGED <<op, ret>>
    /\ UNCHANGED <<edition, arg>>

\* the loop has ended: flush, infer the note type, return the ParsedNote
ParseReturn ==
    /\ op = "parse_note_block"
    /\ frame.i > Len(frame.lines)
    /\ ret' = FinishParse(edition, frame, arg.block)
    /\ op' = "parse_note_block:done"
    /\ UNCHANGED <<edition, arg, frame>>

\* the notesInfo dict of a note whose fields hold the given contents:
\* note["fields"][name] = {"value": content}
RemoteNote(fields) ==
    [fields |-> [i \in 1..Len(fields) |->
                    << fields[i][1], << << "value", fields[i][2] >> >> >>]]

\* a block is parsed, the note formatted with the identity converter under
\* its own note type, and the emitted block parsed again
RoundTrip ==
    /\ op = "idle"
    /\ \E block \in RoundTripBlocks, id \in RoundTripIds :
       \E p \in {parse_note_block(edition, block)} :
       \E text \in {IF Raised(p) THEN p
                    ELSE format_note(edition, id, RemoteNote(p.val.fields),
                                     "identity", p.val.note_type)} :
       \E q \in {IF Raised(text) THEN text
                 ELSE parse_note_block(edition, text.val)} :
          /\ arg' = [block |-> block, note_id |-> id]
          /\ ret' = Return([parsed |-> p, text |-> text, reparsed |-> q])
    /\ op' = "round_trip:done"
    /\ UNCHANGED <<edition, frame>>

\* validate_note(note) is called on a note and returns its list of errors
Validate ==
    /\ op = "idle"
    /\ \E case \in ValidateCases(edition) :
          /\ arg' = case
          /\ ret' = Return(validate_note(edition, case.note))
    /\ op' = "validate_note:done"
    /\ UNCHANGED <<edition, frame>>

\* the note type of a fields dict is inferred: infer_note_type(fields) in
\* ankiops, _detect_note_type(fields) in deckops
Infer ==
    /\ op = "idle"
    /\ \E fields \in InferFields :
          /\ arg' = [fields |-> fields]
          /\ ret' = InferType(edition, fields)
    /\ op' = "infer_note_type:done"
    /\ UNCHANGED <<edition, frame>>

\* format_note(note_id, note, converter, note_type) is called
Format ==
    /\ op = "idle"
    /\ \E note \in FormatNotes, id \in RoundTripIds, converter \in Converters,
          note_type \in KeySet(NOTE_TYPES(edition)) \cup {"Bogus", "it's"} :
          /\ arg' = [note_id |-> id, note |-> note, converter |-> converter,
                     note_type |-> note_type]
          /\ ret' = format_note(edition, id, note, converter, note_type)
    /\ op' = "format_note:done"
    /\ UNCHANGED <<edition, frame>>

\* extract_deck_id(content) is called
ExtractDeckId ==
    /\ op = "idle"
    /\ \E case \in FileCases :
          /\ arg' = case
          /\ ret' = Return(extract_deck_id(case.content))
    /\ op' = "extract_deck_id:done"
    /\ UNCHANGED <<edition, frame>>

\* FileState.from_file(file_path) is called on a file holding the content
FromFile ==
    /\ op = "idle"
    /\ edition = "ankiops"
    /\ \E case \in FileCases :
          /\ arg' = case
          /\ ret' = from_file(FilePath, case.content)
    /\ op' = "from_file:done"
    /\ UNCHANGED <<edition, frame>>

\* validate_markdown_ids(file_states, valid_deck_ids, valid_note_ids) is
\* called
ValidateIds ==
    /\ op = "idle"
    /\ edition = "ankiops"
    /\ \E files \in IdFileLists, decks \in {{}, {7}}, notes \in {{}, {5}} :
          /\ arg' = [file_states |-> files, valid_deck_ids |-> decks,
                     valid_note_ids |-> notes]
          /\ ret' = Return(validate_markdown_ids(files, decks, notes))
    /\ op' = "validate_markdown_ids:done"
    /\ UNCHANGED <<edition, frame>>

\* convert_fields_to_html(fields, converter, note_type) is called, the note
\* type being left out ("") or given
ConvertFields ==
    /\ op = "idle"
    /\ edition = "ankiops"
    /\ \E fields \in HtmlFields, converter \in HtmlConverters,
          note_type \in KeySet(NOTE_TYPES("ankiops")) \cup {"", "Bogus"} :
          /\ arg' = [fields |-> fields, converter |-> converter,
                     note_type |-> note_type]
          /\ ret' = Return(convert_fields_to_html(fields, converter, note_type))
    /\ op' = "convert_fields_to_html:done"
    /\ UNCHANGED <<edition, frame>>

\* sanitize_filename(deck_name) is called
SanitizeFilename ==
    /\ op = "idle"
    /\ \E deck_name \in DeckNames :
          /\ arg' = [deck_name |-> deck_name]
          /\ ret' = sanitize_filename(edition, deck_name)
    /\ op' = "sanitize_filename:done"
    /\ UNCHANGED <<edition, frame>>

\* the collection is opened: the remote state is whatever it holds
Connect ==
    /\ op = "idle"
    /\ edition = "ankiops"
    /\ \E store \in Stores(MaxStale) :
          frame' = [store |-> store, calls |-> << >>, edits |-> 0,
                    pc |-> "done", k |-> 0, existing |-> {},
                    current_styling |-> None, current_templates |-> None]
    /\ arg' = [call |-> 0]
    /\ op' = "connected"
    /\ UNCHANGED <<edition, ret>>

\* ensure_note_types() is called, the first time or once more
EnsureNoteTypes ==
    /\ op \in {"connected", "ensure_note_types:done"}
    /\ arg.call < MaxCalls
    /\ arg' = [call |-> arg.call + 1, store |-> frame.store]
    /\ frame' = [frame EXCEPT !.calls = << >>, !.pc = "modelNames",
                              !.existing = {}]
    /\ ret' = Return(None)
    /\ op' = "ensure_note_types"
    /\ UNCHANGED edition

\* the call goes on with the locals f, or returns when f.pc is "done"
Proceed(f) ==
    /\ frame' = f
    /\ op' = IF f.pc = "done" THEN "ensure_note_types:done" ELSE op
    /\ UNCHANGED <<edition, arg, ret>>

\* invoke raises out of the call
Fail(action, model_name) ==
    /\ frame' = [Invoked(frame, action, model_name) EXCEPT !.pc = "done", !.k = 0,
                    !.current_styling = None, !.current_templates = None]
    /\ ret' = RemoteError(action, model_name)
    /\ op' = "ensure_note_types:done"
    /\ UNCHANGED <<edition, arg>>

\* existing = set(invoke("modelNames"))
InvokeModelNames ==
    /\ op = "ensure_note_types" /\ frame.pc = "modelNames"
    /\ Proceed(Goto([Invoked(frame, "modelNames", "") EXCEPT
                        !.existing = modelNames(frame)], 1))

\* _create_model: invoke("createModel", ...)
InvokeCreateModel ==
    /\ op = "ensure_note_types" /\ frame.pc = "createModel"
    /\ LET model_name == EnsureStatements[frame.k][1]
           is_cloze == EnsureStatements[frame.k][2]
       IN  IF frame.store[model_name] # None
           THEN Fail("createModel", model_name)
           ELSE Proceed(Goto(_create_model(frame, model_name, is_cloze), frame.k + 1))

\* _is_model_up_to_date: invoke("modelStyling", ...)
InvokeModelStyling ==
    /\ op = "ensure_note_types" /\ frame.pc = "modelStyling"
    /\ LET model_name == EnsureStatements[frame.k][1]
       IN  IF frame.store[model_name] = None
           THEN Fail("modelStyling", model_name)
           ELSE Proceed([Invoked(frame, "modelStyling", model_name) EXCEPT
                            !.current_styling = modelStyling(frame, model_name),
                            !.pc = "modelTemplates"])

\* _is_model_up_to_date: invoke("modelTemplates", ...) and the comparisons,
\* which decide whether _update_model is called
InvokeModelTemplates ==
    /\ op = "ensure_note_types" /\ frame.pc = "modelTemplates"
    /\ LET model_name == EnsureStatements[frame.k][1]
       IN  IF frame.store[model_name] = None
           THEN Fail("modelTemplates", model_name)
           ELSE LET f == Invoked(frame, "modelTemplates", model_name)
                IN  IF UpToDate(frame.current_styling,
                                modelTemplates(frame, model_name), model_name)
                    THEN Proceed(Goto(f, frame.k + 1))
                    ELSE Proceed([f EXCEPT !.pc = "updateModelStyling",
                                           !.current_styling = None])

\* _update_model: invoke("updateModelStyling", ...)
InvokeUpdateModelStyling ==
    /\ op = "ensure_note_types" /\ frame.pc = "updateModelStyling"
    /\ LET model_name == EnsureStatements[frame.k][1]
       IN  IF frame.store[model_name] = None
           THEN Fail("updateModelStyling", model_name)
           ELSE Proceed([updateModelStyling(frame, model_name,
                                            _load_template("Styling.css"))
                            EXCEPT !.pc = "modelTemplates:update"])

\* _update_model: invoke("modelTemplates", ...)
InvokeModelTemplatesForUpdate ==
    /\ op = "ensure_note_types" /\ frame.pc = "modelTemplates:update"
    /\ LET model_name == EnsureStatements[frame.k][1]
       IN  IF frame.store[model_name] = None
           THEN Fail("modelTemplates", model_name)
           ELSE Proceed([Invoked(frame, "modelTemplates", model_name) EXCEPT
                            !.current_templates = modelTemplates(frame, model_name),
                            !.pc = "updateModelTemplates"])

\* _update_model: invoke("updateModelTemplates", ...)
InvokeUpdateModelTemplates ==
    /\ op = "ensure_note_types" /\ frame.pc = "updateModelTemplates"
    /\ LET model_name == EnsureStatements[frame.k][1]
       IN  IF frame.store[model_name] = None
           THEN Fail("updateModelTemplates", model_name)
           ELSE Proceed(Goto(updateModelTemplates(frame, model_name,
                                 TemplatesDict(frame.current_templates, model_name)),
                             frame.k + 1))

\* what another client may do to the collection in one request: restyle a
\* note type, delete one, or create one that is missing
Edits(store) ==
    {[store EXCEPT ![m][1].css = "edited"] :
        m \in {n \in ModelNames : store[n] # None /\ store[n][1].css # "edited"}}
    \cup {[store EXCEPT ![m] = None] : m \in {n \in ModelNames : store[n] # None}}
    \cup {[store EXCEPT ![m] = Created(m)] : m \in {n \in ModelNames : store[n] = None}}

\* another client of the collection acts, before, between or after the
\* requests of the call
OtherClient ==
    /\ op \in {"connected", "ensure_note_types", "ensure_note_types:done"}
    /\ frame.edits < MaxEdits
    /\ \E store \in Edits(frame.store) :
          frame' = [frame EXCEPT !.store = store, !.edits = @ + 1]
    /\ UNCHANGED <<edition, op, arg, ret>>

\* parse_note_block(block) is called and validate_note on the note it returns
ParseThenValidate ==
    /\ op = "idle"
    /\ edition = "ankiops"
    /\ \E block \in ParsedBlocks :
       \E p \in {parse_note_block(edition, block)} :
          /\ arg' = [block |-> block, parsed |-> p]
          /\ ret' = IF Raised(p) THEN p
                    ELSE Return(validate_note(edition, p.val))
    /\ op' = "parse_then_validate:done"
    /\ UNCHANGED <<edition, frame>>

NextParse == ParseEnter \/ ParseStep \/ ParseReturn

SpecParse == Init /\ [][NextParse]_vars

NextRoundTrip == RoundTrip

SpecRoundTrip == Init /\ [][NextRoundTrip]_vars

NextValidate == Validate

SpecValidate == Init /\ [][NextValidate]_vars

NextInfer == Infer

SpecInfer == Init /\ [][NextInfer]_vars

NextFormat == Format

SpecFormat == Init /\ [][NextFormat]_vars

NextSplit == ExtractDeckId \/ FromFile

SpecSplit == Init /\ [][NextSplit]_vars

NextIds == ValidateIds

SpecIds == Init /\ [][NextIds]_vars

NextHtml == ConvertFields

SpecHtml == Init /\ [][NextHtml]_vars

NextSanitize == SanitizeFilename

SpecSanitize == Init /\ [][NextSanitize]_vars

NextNoteTypes ==
    \/ Connect \/ EnsureNoteTypes \/ InvokeModelNames \/ InvokeCreateModel
    \/ InvokeModelStyling \/ InvokeModelTemplates \/ InvokeUpdateModelStyling
    \/ InvokeModelTemplatesForUpdate \/ InvokeUpdateModelTemplates
    \/ OtherClient

SpecNoteTypes == Init /\ [][NextNoteTypes]_vars

NextParsed == ParseThenValidate

SpecParsed == Init /\ [][NextParsed]_vars

Next ==
    \/ NextParse \/ NextRoundTrip \/ NextValidate \/ NextInfer \/ NextFormat
    \/ NextSplit \/ NextIds \/ NextHtml \/ NextSanitize \/ NextNoteTypes
    \/ NextParsed

Spec == Init /\ [][Next]_vars

-----------------------------------------------------------------------------
(* Properties of parse_note_block                                          *)

\* what the properties say of the text, stated on the text alone
IsFenceLine(line) ==
    LET t == LStrip(line) IN StartsWith(t, "^^^") \/ StartsWith(t, "~~~")

\* a code fence is open at line i: an odd number of fence lines precede it
FenceOpenAt(lines, i) ==
    Cardinality({j \in 1..(i - 1) : IsFenceLine(lines[j])}) % 2 = 1

PrefixesOf(ed) == {m[2] : m \in UNION {{t[2][k] : k \in 1..Len(t[2])} :
                                      t \in {NOTE_TYPES(ed)[n] : n \in 1..Len(NOTE_TYPES(ed))}}}

LooksLikePrefix(line, prefix) == line = prefix \/ StartsWith(line, prefix \o " ")

\* two lines outside any code fence match the same prefix
DuplicatePrefix(ed, lines) ==
    \E p \in PrefixesOf(ed) : \E i, j \in 1..Len(lines) :
        /\ i < j
        /\ LooksLikePrefix(lines[i], p) /\ ~FenceOpenAt(lines, i)
        /\ LooksLikePrefix(lines[j], p) /\ ~FenceOpenAt(lines, j)

ParseDone == op = "parse_note_block:done"

\* C1: a block in which two lines match the same field prefix while no code
\* fence is open makes parse_note_block raise the duplicate-field error and
\* return no ParsedNote, in both editions.
C1_DuplicatePrefixRaises ==
    (ParseDone /\ DuplicatePrefix(edition, Split(arg.block, "\n")))
        => /\ ret.exc = "ValueError"
           /\ StartsWith(ret.msg, "Duplicate field '")
           /\ ret.val = None

\* C1 happens: the second occurrence is the fourth line and follows a fence
\* that was opened and closed again, and the call has raised
C1_Witness ==
    /\ ParseDone
    /\ edition = "deckops"
    /\ DuplicatePrefix(edition, Split(arg.block, "\n"))
    /\ frame.i = 4
    /\ IsFenceLine(frame.lines[2]) /\ IsFenceLine(frame.lines[3])
    /\ ret.exc = "ValueError"

\* the line the loop is about to read looks like a field prefix and lies
\* inside an open code fence
AtFencedPrefixLine ==
    /\ op = "parse_note_block"
    /\ frame.i <= Len(frame.lines)
    /\ FenceOpenAt(frame.lines, frame.i)
    /\ \E p \in PrefixesOf(edition) : LooksLikePrefix(frame.lines[frame.i], p)

\* C2: a line that looks like a field prefix and lies inside an open code
\* fence is no field boundary: reading it raises nothing, leaves the open
\* field, the seen set and the flushed fields as they are, and appends the
\* line unchanged to the content of the open field (there is nothing to
\* append to when no field is open).
C2_FencedPrefixLineAbsorbed ==
    [][AtFencedPrefixLine =>
          /\ op' = "parse_note_block"
          /\ ret' = ret
          /\ frame' = [frame EXCEPT
                 !.i = @ + 1,
                 !.current_content =
                     IF frame.current_field # None
                     THEN Append(@, frame.lines[frame.i]) ELSE @]]_vars

\* C2 happens: the line just read was inside a fence, matches the prefix of
\* a field seen before, and is now the last line of the open field's content
C2_Witness ==
    /\ op = "parse_note_block"
    /\ frame.i > 1
    /\ FenceOpenAt(frame.lines, frame.i - 1)
    /\ \E k \in 1..Len(ALL_PREFIX_TO_FIELD(edition)) :
          /\ LooksLikePrefix(frame.lines[frame.i - 1], ALL_PREFIX_TO_FIELD(edition)[k][1])
          /\ ALL_PREFIX_TO_FIELD(edition)[k][2] \in frame.seen
    /\ frame.current_field # None
    /\ frame.current_content # << >>
    /\ frame.current_content[Len(frame.current_content)] = frame.lines[frame.i - 1]

-----------------------------------------------------------------------------
(* Round trip                                                              *)

\* the fields with content, as a set of << name, content >>
Populated(fields) ==
    {<< fields[i][1], fields[i][2] >> : i \in {j \in 1..Len(fields) : fields[j][2] # ""}}

RoundTripDone == op = "round_trip:done"

FieldNamesOf(ed, note_type) ==
    {TypeConfig(ed, note_type)[k][1] : k \in 1..Len(TypeConfig(ed, note_type))}

\* the lines after the first of a field's content hold an even number of
\* fence lines, and none of them outside those fences looks like a prefix
ContentReparses(ed, content) ==
    LET rest == Tail(Split(content, "\n"))
    IN  /\ ~FenceOpenAt(rest, Len(rest) + 1)
        /\ \A i \in 1..Len(rest) :
              (\E p \in PrefixesOf(ed) : LooksLikePrefix(rest[i], p))
                  => (IsFenceLine(rest[i]) \/ FenceOpenAt(rest, i))

\* every field with content is a field of the note's type, and every
\* content reparses
RoundTripSafe(ed, note) ==
    /\ \A e \in Populated(note.fields) : e[1] \in FieldNamesOf(ed, note.note_type)
    /\ \A e \in Populated(note.fields) : ContentReparses(ed, e[2])

\* C3 as stated: for every block parse_note_block accepts, formatting the
\* parsed fields (any note id, identity converter, the parsed note type) and
\* parsing the emitted block again succeeds and gives the same populated
\* fields with the same contents.
C3_RoundTripOfEveryAcceptedBlock ==
    (RoundTripDone /\ ~Raised(ret.val.parsed))
        => /\ ~Raised(ret.val.reparsed)
           /\ Populated(ret.val.reparsed.val.fields)
                  = Populated(ret.val.parsed.val.fields)

\* C3 amended: the round trip holds for the accepted blocks whose populated
\* fields all belong to the parsed note type and whose field contents, after
\* their first line, hold balanced fences and no prefix-like line outside
\* them.
C3_RoundTripOfSafeBlocks ==
    (/\ RoundTripDone
     /\ ~Raised(ret.val.parsed)
     /\ RoundTripSafe(edition, ret.val.parsed.val))
        => /\ ~Raised(ret.val.reparsed)
           /\ Populated(ret.val.reparsed.val.fields)
                  = Populated(ret.val.parsed.val.fields)

\* C3 happens: an accepted block with a fenced prefix-like line inside a
\* field's content went through the round trip and came back the same
C3_Witness ==
    /\ RoundTripDone
    /\ edition = "ankiops"
    /\ ~Raised(ret.val.parsed)
    /\ RoundTripSafe(edition, ret.val.parsed.val)
    /\ \E e \in Populated(ret.val.parsed.val.fields) :
          \E i \in 1..Len(Split(e[2], "\n")) :
              /\ FenceOpenAt(Split(e[2], "\n"), i)
              /\ \E p \in PrefixesOf(edition) : LooksLikePrefix(Split(e[2], "\n")[i], p)
    /\ ~Raised(ret.val.reparsed)
    /\ ret.val.reparsed.val.fields = ret.val.parsed.val.fields

-----------------------------------------------------------------------------
(* Properties of validate_note                                             *)

ValidateDone == op = "validate_note:done"

Populated1(fields, name) == HasKey(fields, name) /\ DictGet(fields, name, "") # ""

\* the highest N in 1..7 whose "Choice N" field is populated, 0 if none
HighestChoice(fields) ==
    LET Given(n) == Populated1(fields, "Choice " \o IntToStr(n))
    IN  IF \E n \in 1..7 : Given(n)
        THEN CHOOSE n \in 1..7 : Given(n) /\ \A m \in (n + 1)..7 : ~Given(m)
        ELSE 0

IsRangeError(e) == Contains(e, " answer contains '")

Names(e, n, maxChoice) ==
    /\ Contains(e, " contains '" \o IntToStr(n) \o "' ")
    /\ Contains(e, " only " \o IntToStr(maxChoice) \o " choice(s) ")

RangeErrors(errors) == SelectSeq(errors, IsRangeError)

\* C4: a choice note whose Answer is a comma-separated list of integers gets
\* no range error when every answer lies in 1..maxChoice, maxChoice being the
\* highest N in 1..7 whose "Choice N" field is populated; otherwise, and so
\* whenever some answer is 0 or maxChoice + 1, it gets a range error that
\* names maxChoice and the first answer of the list out of that range.
C4_ChoiceAnswerRange ==
    (ValidateDone /\ arg.kind = "choice" /\ arg.ints # None) =>
        LET ints == arg.ints
            maxChoice == HighestChoice(arg.note.fields)
            InRange(n) == 1 <= n /\ n <= maxChoice
            range == RangeErrors(ret.val)
        IN  /\ (\A k \in 1..Len(ints) : InRange(ints[k])) => range = << >>
            /\ (\E k \in 1..Len(ints) : ints[k] = 0 \/ ints[k] = maxChoice + 1) =>
                   /\ Len(range) >= 1
                   /\ \A j \in 1..Len(range) :
                        \E k \in 1..Len(ints) :
                            /\ ~InRange(ints[k])
                            /\ \A h \in 1..(k - 1) : InRange(ints[h])
                            /\ Names(range[j], ints[k], maxChoice)

\* Choice 1..3 populated and Answer "1, 4": one error, citing 4 and 3
C4_Witness ==
    /\ ValidateDone /\ arg.kind = "choice"
    /\ KeySet(arg.note.fields) = {"Question", "Choice 1", "Choice 2", "Choice 3", "Answer"}
    /\ HighestChoice(arg.note.fields) = 3
    /\ DictGet(arg.note.fields, "Answer", "") = "1, 4"
    /\ Len(ret.val) = 1
    /\ Names(ret.val[1], 4, 3)

IsClozeError(e) == Contains(e, " note must contain cloze syntax ")

IsMissingError(e) == StartsWith(e, "Missing mandatory field ")

\* C5 as stated: every cloze note whose text holds no "{{c<digits>::" gets
\* exactly one cloze error.
C5_ClozeErrorWheneverPatternMissing ==
    (ValidateDone /\ arg.kind = "cloze" /\ ~arg.has_cloze) =>
        Len(SelectSeq(ret.val, IsClozeError)) = 1

\* C5: a cloze note whose Text field is not empty and holds no
\* "{{c<digits>::" gets exactly one cloze error, after the missing-field
\* errors; a cloze note whose Text field is absent or empty gets the
\* missing-field error for Text and no cloze error; a note whose text holds
\* the pattern gets no cloze error.
C5_ClozeErrorForNonEmptyText ==
    (ValidateDone /\ arg.kind = "cloze") =>
        LET fields == arg.note.fields
            cloze == SelectSeq(ret.val, IsClozeError)
            missing == SelectSeq(ret.val, IsMissingError)
        IN  /\ ret.val = missing \o cloze
            /\ Len(missing) = (IF Populated1(fields, "Text") THEN 0 ELSE 1)
            /\ Len(cloze) = (IF Populated1(fields, "Text") /\ ~arg.has_cloze
                             THEN 1 ELSE 0)

C5_Witness ==
    /\ ValidateDone /\ arg.kind = "cloze"
    /\ DictGet(arg.note.fields, "Text", "") = "{{c::a}}"
    /\ Len(ret.val) = 1
    /\ IsClozeError(ret.val[1])

\* the mandatory fields of the type that the note lacks, or holds with an
\* empty or whitespace-only content, as their errors in configured order
ExpectedMissing(mappings, fields) ==
    LET lacking == SelectSeq(mappings,
                      LAMBDA m : m[3] /\ Strip(DictGet(fields, m[1], "")) = "")
    IN  [k \in 1..Len(lacking) |->
            "Missing mandatory field '" \o lacking[k][1]
            \o "' (" \o lacking[k][2] \o ")"]

\* C6: for a note of a known type, the missing-field errors are exactly
\* those of the mandatory fields that are absent, empty or whitespace-only,
\* one each, in the configured field order.
C6_MissingMandatoryFields ==
    (ValidateDone /\ TypeConfig(edition, arg.note.note_type) # None) =>
        SelectSeq(ret.val, IsMissingError)
            = ExpectedMissing(TypeConfig(edition, arg.note.note_type),
                              arg.note.fields)

\* a question and answer note with an empty question and no answer gets
\* the two errors, the one of the question first
C6_Witness ==
    /\ ValidateDone /\ arg.kind = "fields"
    /\ arg.note.note_type = QAName(edition)
    /\ DictGet(arg.note.fields, "Question", "x") = ""
    /\ ~HasKey(arg.note.fields, "Answer")
    /\ ret.val = << "Missing mandatory field 'Question' (Q:)",
                    "Missing mandatory field 'Answer' (A:)" >>


-----------------------------------------------------------------------------
(* Properties of infer_note_type                                           *)

InferDone == op = "infer_note_type:done"

\* the mandatory field names of the i-th declared type are all keys
MatchesAt(types, i, keys) == RequiredFields(types[i][2]) \subseteq keys

\* C7: infer_note_type returns the first type in declared order, AnkiOpsQA
\* left aside, whose mandatory field names are all among the names the
\* mapping holds; AnkiOpsQA when no such type exists and its own mandatory
\* names are all held; and otherwise raises a ValueError that lists the
\* names held, returning no type.
C7_FirstRequiredSubsetWins ==
    (InferDone /\ edition = "ankiops") =>
        LET types == NOTE_TYPES("ankiops")
            keys == KeySet(arg.fields)
            others == {i \in 1..Len(types) :
                          types[i][1] # "AnkiOpsQA" /\ MatchesAt(types, i, keys)}
            qa == {i \in 1..Len(types) :
                      types[i][1] = "AnkiOpsQA" /\ MatchesAt(types, i, keys)}
        IN  IF others # {}
            THEN \E i \in others :
                    /\ \A j \in others : i <= j
                    /\ ret = Return(types[i][1])
            ELSE IF qa # {}
            THEN ret = Return("AnkiOpsQA")
            ELSE /\ ret.exc = "ValueError"
                 /\ ret.val = None
                 /\ \A k \in keys : Contains(ret.msg, k)

\* Question, Answer, Input and Choice 1 are held: AnkiOpsQA, AnkiOpsInput
\* and AnkiOpsChoice all match, and AnkiOpsInput is returned
C7_Witness ==
    /\ InferDone /\ edition = "ankiops"
    /\ KeySet(arg.fields) = {"Question", "Answer", "Input", "Choice 1"}
    /\ ret = Return("AnkiOpsInput")


-----------------------------------------------------------------------------
(* Properties of format_note                                               *)

FormatDone == op = "format_note:done"

\* the remote note holds a non-empty entry for the field
HasEntry(note, name) == DictGet(note.fields, name, None) # << >>

\* the raw value of the field in the remote note, "" when there is none
RawValue(note, name) == DictGet(DictGet(note.fields, name, None), "value", "")

\* the block made of the note-id line and one line "<prefix> <text>" for
\* each configured field, in configured order, for which Emits holds
ExpectedBlock(Emits(_)) ==
    LET mappings == TypeConfig(edition, arg.note_type)
        emitted == SelectSeq(mappings, Emits)
    IN  Join(<< "<!-- note_id: " \o IntToStr(arg.note_id) \o " -->" >>
             \o [k \in 1..Len(emitted) |->
                    emitted[k][2] \o " "
                    \o Convert(arg.converter, RawValue(arg.note, emitted[k][1]))],
             "\n")

\* C8 as stated: a field gets its line exactly when its raw value is not
\* empty and the converted text is not empty or the field is mandatory.
C8_LineOnlyForNonEmptyRawValue ==
    (FormatDone /\ ~Raised(ret)) =>
        ret.val = ExpectedBlock(
            LAMBDA m : /\ RawValue(arg.note, m[1]) # ""
                       /\ (Convert(arg.converter, RawValue(arg.note, m[1])) # ""
                           \/ m[3]))

\* C8: format_note emits the note-id line first and then, in configured
\* order, one line "<prefix> <converted text>" for a field exactly when the
\* remote note holds an entry for it and the converted text is not empty or
\* the field is mandatory; so a mandatory field whose raw value is empty
\* gets the line "<prefix> ", and a field with no entry gets none.
C8_LineForEveryEntry ==
    (FormatDone /\ ~Raised(ret)) =>
        ret.val = ExpectedBlock(
            LAMBDA m : /\ HasEntry(arg.note, m[1])
                       /\ (Convert(arg.converter, RawValue(arg.note, m[1])) # ""
                           \/ m[3]))

\* a mandatory field with an empty raw value next to a filled one
C8_Witness ==
    /\ FormatDone
    /\ arg.note_type = QAName(edition)
    /\ HasKey(DictGet(arg.note.fields, "Question", None), "value")
    /\ RawValue(arg.note, "Question") = ""
    /\ RawValue(arg.note, "Answer") = "x"
    /\ ~HasEntry(arg.note, "Extra")
    /\ ret = Return("<!-- note_id: 907 -->\nQ: \nA: x")


-----------------------------------------------------------------------------
(* Properties of extract_deck_id and FileState.from_file                   *)

ExtractDone == op = "extract_deck_id:done"

FromFileDone == op = "from_file:done"

\* the text after the deck-id marker, and its segments that are not blank
RemainingOf(case) == case.head.rest \o Join(case.segments, NOTE_SEPARATOR)

SegmentsOf(case) ==
    SelectSeq([case.segments EXCEPT ![1] = case.head.rest \o @],
              LAMBDA segment : Strip(segment) # "")

\* C9 as stated: the deck id is that of a leading marker, and there is one
\* note per segment that is not blank, each made of the trimmed segment, in
\* document order.
C9_OneNotePerSegment ==
    /\ ExtractDone => ret.val = << arg.head.deck_id, RemainingOf(arg) >>
    /\ FromFileDone =>
          /\ ~Raised(ret)
          /\ ret.val.deck_id = arg.head.deck_id
          /\ ret.val.parsed_notes =
                [k \in 1..Len(SegmentsOf(arg)) |->
                    parse_note_block("ankiops", Strip(SegmentsOf(arg)[k])).val]

\* C9: the deck id is the integer of a marker the content begins with, the
\* marker and at most one newline after it being consumed, and is absent
\* with nothing consumed otherwise.  When every segment of the remaining
\* text that is not blank parses, from_file yields one note per such
\* segment in document order, parsed from the trimmed segment and keeping
\* the untrimmed segment as raw_content; when one does not parse, from_file
\* raises the error of the first such segment.
C9_OneNotePerParsedSegment ==
    /\ ExtractDone => ret.val = << arg.head.deck_id, RemainingOf(arg) >>
    /\ FromFileDone =>
          LET segments == SegmentsOf(arg)
              notes == [k \in 1..Len(segments) |->
                           parse_note_block("ankiops", Strip(segments[k]))]
              failing == {k \in 1..Len(notes) : Raised(notes[k])}
          IN  IF failing = {}
              THEN ret = Return(FileState(FilePath, arg.content, arg.head.deck_id,
                            [k \in 1..Len(notes) |->
                                [notes[k].val EXCEPT !.raw_content = segments[k]]]))
              ELSE \E k \in failing :
                      /\ \A j \in failing : k <= j
                      /\ ret = notes[k]

\* scenario 3: deck id 7 and two notes
C9_Witness ==
    /\ FromFileDone
    /\ arg.content = "<!-- deck_id: 7 -->\nQ: x\nA: y\n\n---\n\nQ: z\nA: w"
    /\ ~Raised(ret)
    /\ ret.val.deck_id = Some(7)
    /\ Len(ret.val.parsed_notes) = 2
    /\ ret.val.parsed_notes[2].fields = << <<"Question", "z">>, <<"Answer", "w">> >>

-----------------------------------------------------------------------------
(* Properties of validate_markdown_ids                                     *)

IdsDone == op = "validate_markdown_ids:done"

\* what a record says: the kind of id, the id, the file
Finding(record) == << record.id_type, record.id_value, record.file_path >>

\* the findings a file must give: its deck id if present and not valid, then
\* the ids of its notes that are present and not valid, in note order
FileFindings(fs, valid_deck_ids, valid_note_ids) ==
    LET present == SelectSeq(fs.parsed_notes, LAMBDA note : note.note_id # None)
        ids == [k \in 1..Len(present) |-> present[k].note_id[1]]
        unknown == SelectSeq(ids, LAMBDA id : id \notin valid_note_ids)
    IN  (IF fs.deck_id = None \/ fs.deck_id[1] \in valid_deck_ids THEN << >>
         ELSE << << "deck_id", fs.deck_id[1], fs.file_path >> >>)
        \o [k \in 1..Len(unknown) |-> << "note_id", unknown[k], fs.file_path >>]

RECURSIVE AllFindings(_, _, _)
AllFindings(file_states, valid_deck_ids, valid_note_ids) ==
    IF file_states = << >> THEN << >>
    ELSE FileFindings(Head(file_states), valid_deck_ids, valid_note_ids)
         \o AllFindings(Tail(file_states), valid_deck_ids, valid_note_ids)

\* C10: validate_markdown_ids returns one record per file whose deck id is
\* present and not valid and one per note whose id is present and not valid,
\* nothing else, in file order, the deck record of a file before its note
\* records and these in note order, an id met twice being reported twice.
C10_OneRecordPerInvalidId ==
    IdsDone =>
        [k \in 1..Len(ret.val) |-> Finding(ret.val[k])]
            = AllFindings(arg.file_states, arg.valid_deck_ids, arg.valid_note_ids)

\* two files with the same unknown deck id, the second with notes 6 and 5 of
\* which only 5 is known
C10_Witness ==
    /\ IdsDone
    /\ arg.valid_deck_ids = {7} /\ arg.valid_note_ids = {5}
    /\ Len(arg.file_states) = 2
    /\ [k \in 1..Len(ret.val) |-> Finding(ret.val[k])]
          = << << "deck_id", 8, "decks/f1.md" >>,
               << "deck_id", 8, "decks/f2.md" >>,
               << "note_id", 6, "decks/f2.md" >> >>
    /\ Len(arg.file_states[2].parsed_notes) = 2


-----------------------------------------------------------------------------
(* Properties of convert_fields_to_html                                    *)

ConvertDone == op = "convert_fields_to_html:done"

\* the field names configured for the note type, none for an unknown one
ConfiguredNames(note_type) ==
    LET mappings == DictGet(NOTE_TYPES("ankiops"), note_type, << >>)
    IN  {mappings[k][1] : k \in 1..Len(mappings)}

\* C11: every key of the input is a key of the output, holding the
\* converted content of that field alone; with a note type given, every
\* field name configured for it is a key of the output too, holding the
\* empty string when the input lacks it; the output has no other key.
C11_EveryFieldPresent ==
    ConvertDone =>
        LET given == KeySet(arg.fields)
            configured == IF arg.note_type = "" THEN {}
                          ELSE ConfiguredNames(arg.note_type)
        IN  /\ KeySet(ret.val) = given \cup configured
            /\ Len(ret.val) = Cardinality(given \cup configured)
            /\ \A name \in given :
                  DictGet(ret.val, name, None)
                      = ConvertToHtml(arg.converter, DictGet(arg.fields, name, None))
            /\ \A name \in configured \ given : DictGet(ret.val, name, None) = ""

\* a QA note with its question only: the answer and the optional fields
\* are added empty, the question keeps its converted content
C11_Witness ==
    /\ ConvertDone
    /\ arg.note_type = "AnkiOpsQA" /\ arg.converter = "breaks"
    /\ arg.fields = << <<"Question", "a\nb">> >>
    /\ DictGet(ret.val, "Question", None) = "a<br>b"
    /\ DictGet(ret.val, "Answer", None) = ""
    /\ HasKey(ret.val, "Extra")

-----------------------------------------------------------------------------
(* Properties of sanitize_filename                                         *)

SanitizeDone == op = "sanitize_filename:done"

HasInvalidChar(name) ==
    \E k \in 1..Len(name) :
        Char(name, k) \in {"/", "\\", "?", "*", "|", "\"", "<", ">"}

\* the portion of the name before the first "::", the name when it has none
BaseOf(name) ==
    LET k == Find(name, "::", 1)
    IN  IF k = 0 THEN name ELSE SubSeq(name, 1, k - 1)

DeviceNames ==
    {"CON", "PRN", "AUX", "NUL"}
    \cup {stem \o IntToStr(n) : stem \in {"COM", "LPT"}, n \in 1..9}

IsDeviceName(base) == \E device \in DeviceNames : Upper(base) = Upper(device)

\* C12: sanitize_filename raises, returning nothing, when the name holds one
\* of / \ ? * | " < > or when its portion before the first "::" is a device
\* name in any letter case; otherwise it returns the name with every "::"
\* replaced by "__", a colon that stands alone being kept.
C12_SanitizeFilename ==
    SanitizeDone =>
        LET name == arg.deck_name
        IN  IF HasInvalidChar(name) \/ IsDeviceName(BaseOf(name))
            THEN ret.exc = "ValueError" /\ ret.val = None
            ELSE /\ ret = Return(Replace(name, "::", "__"))
                 /\ Len(ret.val) = Len(name)
                 /\ ~Contains(ret.val, "::")
                 /\ \A k \in 1..Len(name) :
                       IF Char(name, k) # ":" THEN Char(ret.val, k) = Char(name, k)
                       ELSE IF Char(name, k - 1) # ":" /\ Char(name, k + 1) # ":"
                       THEN Char(ret.val, k) = ":"
                       ELSE TRUE

\* a device name in mixed case before the separator
C12_Witness ==
    /\ SanitizeDone
    /\ arg.deck_name = "Lpt1::a"
    /\ ret.exc = "ValueError"
    /\ Contains(ret.msg, "'LPT1'")

-----------------------------------------------------------------------------
(* validate_note collects its errors                                       *)

\* the mandatory fields of the note's type that the note lacks or holds empty
LackingFields(ed, note) ==
    LET mappings == TypeConfig(ed, note.note_type)
    IN  {k \in 1..Len(mappings) :
            mappings[k][3] /\ DictGet(note.fields, mappings[k][1], "") = ""}

\* C13: validate_note returns a list and never raises.  For a known type
\* every mandatory field that is absent or empty has its error in the list
\* whatever else is wrong, a cloze note has its cloze error exactly when its
\* text is not empty and holds no cloze pattern, and a choice note with a
\* list of integers as answer has a range error exactly when one of them
\* lies outside 1..maxChoice, whatever fields are missing.  For an unknown
\* type the list holds the unknown-type error and nothing else.
C13_AllViolationsCollected ==
    ValidateDone =>
        LET note == arg.note
            mappings == TypeConfig(edition, note.note_type)
            maxChoice == HighestChoice(note.fields)
        IN  /\ ~Raised(ret)
            /\ IF mappings = None
               THEN ret.val = << "Unknown note type '" \o note.note_type \o "'" >>
               ELSE /\ \A k \in LackingFields(edition, note) :
                         \E j \in 1..Len(ret.val) :
                             /\ IsMissingError(ret.val[j])
                             /\ Contains(ret.val[j], "'" \o mappings[k][1] \o "'")
                    /\ arg.kind = "cloze" =>
                         (\E j \in 1..Len(ret.val) : IsClozeError(ret.val[j]))
                             <=> (Populated1(note.fields, "Text") /\ ~arg.has_cloze)
                    /\ (arg.kind = "choice" /\ arg.ints # None) =>
                         (\E j \in 1..Len(ret.val) : IsRangeError(ret.val[j]))
                             <=> (\E k \in 1..Len(arg.ints) :
                                     arg.ints[k] < 1 \/ arg.ints[k] > maxChoice)

\* a choice note without its first choice and with an answer out of range:
\* both errors are returned
C13_Witness ==
    /\ ValidateDone /\ arg.kind = "choice"
    /\ ~HasKey(arg.note.fields, "Choice 1")
    /\ HighestChoice(arg.note.fields) = 7
    /\ arg.ints = << 8 >>
    /\ Len(ret.val) = 2
    /\ IsMissingError(ret.val[1])
    /\ IsRangeError(ret.val[2])

-----------------------------------------------------------------------------
(* ensure_note_types                                                       *)

EnsureDone == op = "ensure_note_types:done"

Writes == {"createModel", "updateModelStyling", "updateModelTemplates"}

\* C14: after a call of ensure_note_types during which nobody else touched
\* the collection, every one of the five note types exists and
\* _is_model_up_to_date is true for it, and a second call right after makes
\* no create and no update.
C14_EnsureReachesUpToDate ==
    (EnsureDone /\ frame.edits = 0) =>
        /\ \A m \in ModelNames :
              /\ frame.store[m] # None
              /\ _is_model_up_to_date(frame, m)
        /\ arg.call = 2 =>
              \A k \in 1..Len(frame.calls) : frame.calls[k][1] \notin Writes

\* the part that holds: every note type exists, and one whose number of card
\* templates is the packaged number is up to date, after which a second call
\* writes nothing to it
C14_UpToDateWhenCountsAgree ==
    (EnsureDone /\ frame.edits = 0) =>
        /\ ~Raised(ret)
        /\ \A m \in ModelNames :
            /\ frame.store[m] # None
            /\ (arg.store[m] = None
                \/ Len(arg.store[m][1].templates) = Len(_get_card_templates(m)))
               => /\ _is_model_up_to_date(frame, m)
                  /\ arg.call = 2 =>
                        \A k \in 1..Len(frame.calls) :
                            frame.calls[k][2] = m => frame.calls[k][1] \notin Writes

\* the requests of a call that nobody disturbs add up to ensure_note_types
EnsureStepsCompose ==
    (EnsureDone /\ frame.edits = 0) =>
        /\ frame.store = ensure_note_types([store |-> arg.store, calls |-> << >>]).store
        /\ frame.calls = ensure_note_types([store |-> arg.store, calls |-> << >>]).calls

\* a note type with one template too many is updated by the first call and
\* again by the second, nobody else acting
C14_Witness ==
    /\ EnsureDone /\ arg.call = 2 /\ frame.edits = 0
    /\ Len(frame.store["AnkiOpsQA"][1].templates) = 2
    /\ <<"updateModelTemplates", "AnkiOpsQA">>
          \in {frame.calls[k] : k \in 1..Len(frame.calls)}

\* another client restyled AnkiOpsQA while the call was at a later note
\* type: the call returns with AnkiOpsQA out of date
EnsureDisturbed ==
    /\ EnsureDone /\ arg.call = 1 /\ frame.edits = 1 /\ ~Raised(ret)
    /\ frame.store["AnkiOpsQA"] # None
    /\ frame.store["AnkiOpsQA"][1].css = "edited"
    /\ <<"modelStyling", "AnkiOpsQA">>
          \in {frame.calls[k] : k \in 1..Len(frame.calls)}

\* a note type appeared after modelNames was read: createModel fails
EnsureRaised == EnsureDone /\ Raised(ret)

-----------------------------------------------------------------------------
(* Note-id comment lines                                                   *)

\* the identifier a line of the vocabulary carries, None for the others
IdOfLine(line) ==
    CASE line = "<!-- note_id: 5 -->" -> Some(5)
      [] line = "<!--note_id:12-->" -> Some(12)
      [] OTHER -> None

\* the identifier of the last note-id line among the first n lines
RECURSIVE LastId(_, _)
LastId(lines, n) ==
    IF n = 0 THEN None
    ELSE IF IdOfLine(lines[n]) # None THEN IdOfLine(lines[n])
    ELSE LastId(lines, n - 1)

AtIdLine ==
    /\ op = "parse_note_block"
    /\ frame.i <= Len(frame.lines)
    /\ IdOfLine(frame.lines[frame.i]) # None

\* C15: reading a note-id comment line sets note_id to its digits and does
\* nothing else, whether a code fence is open or not: the line is appended to
\* no content, no field is opened or flushed, the fence state stays.  The
\* note returned carries the identifier of the last such line of the block.
C15_IdLineSetsNoteId ==
    /\ [][AtIdLine =>
            /\ op' = "parse_note_block"
            /\ ret' = ret
            /\ frame' = [frame EXCEPT
                   !.i = @ + 1,
                   !.note_id = IdOfLine(frame.lines[frame.i])]]_vars
    /\ []((ParseDone /\ ~Raised(ret))
            => ret.val.note_id = LastId(frame.lines, Len(frame.lines)))

\* two note-id lines were read inside an open fence: the second identifier
\* is kept and the content of the open field holds neither line
C15_Witness ==
    /\ op = "parse_note_block"
    /\ frame.lines = << "Q: x", "~~~", "<!-- note_id: 5 -->", "<!--note_id:12-->" >>
    /\ frame.i = 5
    /\ frame.in_code_block
    /\ frame.note_id = Some(12)
    /\ frame.current_content = << "x", "~~~" >>

-----------------------------------------------------------------------------
(* Parsed notes hold their mandatory fields                                *)

ParsedDone == op = "parse_then_validate:done"

\* the fields whose prefix lines lie outside any code fence
FieldsWritten(block) ==
    LET lines == Split(block, "\n")
    IN  {DictGet(ParsedWords, lines[i], "") :
            i \in {j \in 1..Len(lines) : ~FenceOpenAt(lines, j)}} \ {""}

\* C16 (ankiops): a note returned by parse_note_block has every mandatory
\* field of its note type as a key; a block whose fields cover the mandatory
\* fields of no note type is not parsed; and every missing-mandatory-field
\* error validate_note gives for a parsed note names a field that is a key
\* of the note with empty content.
C16_ParsedNoteHoldsMandatoryFields ==
    ParsedDone =>
        /\ (\A n \in 1..Len(AnkiOpsNoteTypes) :
               ~(RequiredFields(AnkiOpsNoteTypes[n][2]) \subseteq FieldsWritten(arg.block)))
           => Raised(arg.parsed) /\ arg.parsed.exc = "ValueError"
        /\ ~Raised(arg.parsed) =>
              LET note == arg.parsed.val
                  mappings == TypeConfig("ankiops", note.note_type)
              IN  /\ mappings # None
                  /\ RequiredFields(mappings) \subseteq KeySet(note.fields)
                  /\ \A j \in 1..Len(ret.val) :
                        IsMissingError(ret.val[j]) =>
                            \E k \in 1..Len(mappings) :
                                /\ mappings[k][3]
                                /\ Contains(ret.val[j], "'" \o mappings[k][1] \o "'")
                                /\ HasKey(note.fields, mappings[k][1])
                                /\ DictGet(note.fields, mappings[k][1], "x") = ""

\* a question with no content and an answer: the note is parsed with the
\* key Question, and validate_note reports the field as missing
C16_Witness ==
    /\ ParsedDone
    /\ arg.block = "Q:\nA: y"
    /\ ~Raised(arg.parsed)
    /\ arg.parsed.val.fields = << <<"Question", "">>, <<"Answer", "y">> >>
    /\ ret.val = << "Missing mandatory field 'Question' (Q:)" >>

=============================================================================
